---- MODULE Spec2Model ----
(***************************************************************************)
(* A model of lunar-lander: the runtime lifecycle manager of               *)
(* cmd/lunar/main.go (runtimeState, the watcher callback, shutdown), the   *)
(* dispatch lock of internal/server/lua_engine.go, the debouncing select   *)
(* loop of ScriptWatcher.Run, the key/value store (sugardb.Store) and the  *)
(* document store (db.Store).                                              *)
(*                                                                         *)
(* The specifications of the module:                                       *)
(*   Spec         requests, reloads, the dispatch lock and shutdown        *)
(*   SpecStream   requests without end and reloads, with fairness          *)
(*   SpecShared   handlers and scripts that use the key/value store        *)
(*   SpecWatcher  ScriptWatcher.Run with a discrete clock                  *)
(*   SpecStore    db.Store: Open, Query, Insert, Update, Delete            *)
(*   SpecStoreIDs db.Store: Open, Insert and Delete that save              *)
(*   SpecAlias    db.Store and callers that keep the records they passed   *)
(*   SpecConc     db.Store called by two goroutines                        *)
(*   SpecHandler  a request whose handler calls db.Store                   *)
(***************************************************************************)
EXTENDS Integers, Sequences, FiniteSets, TLC

(* ------------------------------ bounds -------------------------------- *)

\* number of HTTP requests the environment sends
MaxRequests == 3

\* number of times the watcher callback (a reload) may run
MaxReloads == 2

Req == 1..MaxRequests

\* number of file system events the environment produces
MaxEvents == 3

\* ScriptWatcher.debounce, 200 ms, in clock ticks of 100 ms
Debounce == 2

\* number of calls of Insert in one run of the store model
MaxInserts == 2

\* number of saves that may fail in one run of the store model
MaxSaveFailures == 1

\* runtime 1 is the initial build, the others are built by reloads
Runtimes == 1..(MaxReloads + 1)

VARIABLES
    \* ---- cmd/lunar/main.go ----
    mainpc,         \* main: "start", "serving", "returned", "exited"
    runtime,        \* runtimeState.runtime (0 is nil)
    readers,        \* runtimeState.mu: requests holding the read lock
    wpending,       \* runtimeState.mu: a writer called Lock and waits
    wheld,          \* runtimeState.mu: the write lock is held
    status,         \* per runtime: "None", "Building", "Built" (BuildRuntime
                    \* returned it), "Failed" (LoadScript failed and
                    \* BuildRuntime closed the engine), "Closed" (Swap
                    \* closed the engine)
    nbuilt,         \* number of BuildRuntime calls so far
    cbpc,           \* the watcher callback's position
    next,           \* the callback's local next
    old,            \* Swap's local old
    ctxDone,        \* the signal context is cancelled
    watcherStopped, \* ScriptWatcher.Run has returned
    shutpc,         \* the shutdown goroutine: "wait", "shutting", "done"
    graceExpired,   \* the 5 s shutdown context has expired
    \* ---- requests ----
    rpc,            \* per request: its position in ServeHTTP and the handler
    current,        \* per request: ServeHTTP's local current
    resp,           \* per request: the status code the handler wrote (0: none)
    \* ---- LuaEngine.mu, one per runtime ----
    eholder,        \* the request holding the dispatch lock (0: free)
    equeue,         \* the requests parked on the lock, head first
    ewoken,         \* the parked request that was woken and retries (0: none)
    estarving,      \* the lock is in starvation mode
    \* ---- history ----
    waiting,        \* requests blocked in e.mu.Lock(), in the order they called it
    \* ---- ScriptWatcher.Run ----
    wpc,            \* Run: "select", "callback" (inside trigger), "returned"
    timer,          \* Run's timer: "nil", "running", "fired" (a value is in timer.C)
    timerLeft,      \* ticks until the running timer fires
    events,         \* events waiting to be received from watcher.Events
    wctxDone,       \* Run's ctx is cancelled
    runErr,         \* Run returned an error
    lagged,         \* a clock tick has passed since a case of the select got ready
    \* ---- history of the watcher ----
    narrived,       \* events that have arrived so far
    sinceArrival,   \* ticks since the last qualifying event arrived (capped)
    nbursts,        \* groups of qualifying events less than Debounce apart
    ncallbacks,     \* invocations of onChange so far
    \* ---- db.Store and its file ----
    opened,         \* a Store has been returned by Open
    path,           \* Store.path
    data,           \* Store.data: collection name -> sequence of records
    nextID,         \* Store.nextID
    file,           \* the backing file: whether it exists, and the JSON
                    \* document in it
    lastOp,         \* the last call on the store, with what it returned
    \* ---- history of the store ----
    issuedLog,      \* the ids Insert has assigned, in order, over all opens
    openedAt,       \* the length of issuedLog when the store was last opened
    ninserts,       \* the number of calls of Insert that reached the store
    nfailed,        \* the number of saves that have failed
    \* ---- values that records refer to ----
    heap,           \* the contents of the nested values (maps, slices) that
                    \* record fields point to, by address
    \* ---- concurrent callers of the store ----
    smu,            \* Store.mu: the caller that holds it, "" when free
    cpc,            \* per caller: where its call is
    cop,            \* per caller: the call it is making
    cidx,           \* per caller: the index of its loop over the records
    cres,           \* per caller: the result it has built up
    \* ---- the same calls one after the other ----
    seqData,        \* the collections after the calls so far, each applied
                    \* whole, in the order in which they took the lock
    seqNextID,      \* the id counter after those calls
    expect,         \* per caller: what its call returns in that order
    \* ---- a request whose handler uses the store ----
    hreq,           \* the request: where it is, how often its handler was
                    \* run, the response, and the store as it was before
    \* ---- sugardb.Store, the key/value store ----
    kv,             \* Store.data: key -> value
    \* ---- history of the key/value store ----
    written,        \* who made the last Set or Delete: a handler or the top
                    \* level of a script being built, and of which runtime
    kvop            \* the last call on the store, with what it returned

lifeVars == <<mainpc, runtime, readers, wpending, wheld, status,
              nbuilt, cbpc, next, old, ctxDone, watcherStopped,
              shutpc, graceExpired, rpc, current, resp, eholder, equeue,
              ewoken, estarving, waiting>>

mainVars == <<mainpc, ctxDone, watcherStopped, shutpc, graceExpired>>
ptrVars  == <<runtime>>
rwVars   == <<readers, wpending, wheld>>
rtVars   == <<status, nbuilt>>
cbVars   == <<cbpc, next, old>>
reqVars  == <<rpc, current, resp>>
lockVars == <<eholder, equeue, ewoken, estarving>>
histVars == <<waiting>>

watchVars == <<wpc, timer, timerLeft, events, wctxDone, runErr, lagged,
               narrived, sinceArrival, nbursts, ncallbacks>>

storeVars == <<opened, path, data, nextID, file, lastOp, issuedLog,
               openedAt, ninserts, nfailed>>

heapVars == <<heap>>

concVars == <<smu, cpc, cop, cidx, cres, seqData, seqNextID, expect>>

handlerVars == <<hreq>>

kvVars == <<kv, written, kvop>>

vars == <<lifeVars, watchVars, storeVars, heapVars, concVars, handlerVars,
          kvVars>>

(* ------------------------- runtime lifecycle --------------------------- *)

InitLife ==
    /\ mainpc = "start"
    /\ runtime = 0
    /\ readers = {}
    /\ wpending = FALSE
    /\ wheld = FALSE
    /\ status = [r \in Runtimes |-> "None"]
    /\ nbuilt = 0
    /\ cbpc = "idle"
    /\ next = 0
    /\ old = 0
    /\ ctxDone = FALSE
    /\ watcherStopped = FALSE
    /\ shutpc = "wait"
    /\ graceExpired = FALSE
    /\ rpc = [q \in Req |-> "idle"]
    /\ current = [q \in Req |-> 0]
    /\ resp = [q \in Req |-> 0]
    /\ eholder = [r \in Runtimes |-> 0]
    /\ equeue = [r \in Runtimes |-> <<>>]
    /\ ewoken = [r \in Runtimes |-> 0]
    /\ estarving = [r \in Runtimes |-> FALSE]
    /\ waiting = <<>>

\* the process is alive and serving: main is blocked in ListenAndServe
Running == mainpc = "serving"

\* a request the server has accepted and not yet finished
InFlight(q) == rpc[q] \notin {"idle", "done"}

\* a request that has read the runtime pointer and is still being processed
Captured(q) == rpc[q] \in {"routed", "parked", "woken", "inScript", "served"}

\* main, lines 52-59: the initial build succeeds and becomes the live runtime
InitialBuildOK ==
    /\ mainpc = "start"
    /\ status' = [status EXCEPT ![1] = "Built"]
    /\ nbuilt' = 1
    /\ runtime' = 1
    /\ mainpc' = "serving"
    /\ UNCHANGED <<watchVars, storeVars, heapVars, handlerVars, kvVars, concVars, ctxDone, watcherStopped, shutpc, graceExpired,
                   rwVars, cbVars, reqVars, lockVars, histVars>>

\* main, lines 54-58: the initial build fails, BuildRuntime closes the engine
\* and the process exits with status 1
InitialBuildFail ==
    /\ mainpc = "start"
    /\ status' = [status EXCEPT ![1] = "Failed"]
    /\ nbuilt' = 1
    /\ mainpc' = "exited"
    /\ UNCHANGED <<watchVars, storeVars, heapVars, handlerVars, kvVars, concVars, ctxDone, watcherStopped, shutpc, graceExpired,
                   ptrVars, rwVars, cbVars, reqVars, lockVars, histVars>>

(* ---- runtimeState.ServeHTTP ---- *)

\* the server accepts a request and its goroutine calls ServeHTTP; the
\* listener is closed once Shutdown has begun
Arrive(q) ==
    /\ Running
    /\ shutpc = "wait"
    /\ rpc[q] = "idle"
    /\ rpc' = [rpc EXCEPT ![q] = "rlockWait"]
    /\ UNCHANGED <<watchVars, storeVars, heapVars, handlerVars, kvVars, concVars, mainVars, ptrVars, rwVars, rtVars, cbVars, current, resp,
                   lockVars, histVars>>

\* the route a request asks for: requests alternate between two routes
Route(q) == q % 2

\* RLock that does not wait for a writer that waits for the lock
RLockBarging(q) ==
    /\ Running
    /\ rpc[q] = "rlockWait"
    /\ ~wheld
    /\ readers' = readers \cup {q}
    /\ rpc' = [rpc EXCEPT ![q] = "rlocked"]
    /\ UNCHANGED <<watchVars, storeVars, heapVars, handlerVars, kvVars, concVars, mainVars, ptrVars, wpending, wheld, rtVars, cbVars,
                   current, resp, lockVars, histVars>>

\* sync.RWMutex.RLock: blocks while a writer holds the lock or waits for it
RLock(q) ==
    /\ Running
    /\ rpc[q] = "rlockWait"
    /\ ~wpending
    /\ ~wheld
    /\ readers' = readers \cup {q}
    /\ rpc' = [rpc EXCEPT ![q] = "rlocked"]
    /\ UNCHANGED <<watchVars, storeVars, heapVars, handlerVars, kvVars, concVars, mainVars, ptrVars, wpending, wheld, rtVars, cbVars,
                   current, resp, lockVars, histVars>>

\* ReadRuntime with the read lock released right after the pointer read
ReadRuntimeThenUnlock(q) ==
    /\ Running
    /\ rpc[q] = "rlocked"
    /\ current' = [current EXCEPT ![q] = runtime]
    /\ readers' = readers \ {q}
    /\ rpc' = [rpc EXCEPT ![q] = "routed"]
    /\ UNCHANGED <<watchVars, storeVars, heapVars, handlerVars, kvVars, concVars, mainVars, ptrVars, wpending, wheld, rtVars, cbVars, resp,
                   lockVars, histVars>>

\* current := s.runtime
ReadRuntime(q) ==
    /\ Running
    /\ rpc[q] = "rlocked"
    /\ current' = [current EXCEPT ![q] = runtime]
    /\ rpc' = [rpc EXCEPT ![q] = "routed"]
    /\ UNCHANGED <<watchVars, storeVars, heapVars, handlerVars, kvVars, concVars, mainVars, ptrVars, rwVars, rtVars, cbVars, resp,
                   lockVars, histVars>>

\* current.Router.ServeHTTP finds no route: gin answers 404 without entering
\* a handler
NoRoute(q) ==
    /\ Running
    /\ rpc[q] = "routed"
    /\ resp' = [resp EXCEPT ![q] = 404]
    /\ rpc' = [rpc EXCEPT ![q] = "served"]
    /\ UNCHANGED <<watchVars, storeVars, heapVars, handlerVars, kvVars, concVars, mainVars, ptrVars, rwVars, rtVars, cbVars, current,
                   lockVars, histVars>>

\* defer s.mu.RUnlock(): ServeHTTP returns, the response is on the wire and
\* the goroutine's locals are gone
RUnlock(q) ==
    /\ Running
    /\ rpc[q] = "served"
    /\ readers' = readers \ {q}
    /\ rpc' = [rpc EXCEPT ![q] = "done"]
    /\ current' = [current EXCEPT ![q] = 0]
    /\ resp' = [resp EXCEPT ![q] = 0]
    /\ UNCHANGED <<watchVars, storeVars, heapVars, handlerVars, kvVars, concVars, mainVars, ptrVars, wpending, wheld, rtVars, cbVars,
                   lockVars, histVars>>

\* the connection of a finished request is free again: the environment
\* sends its next request, so the stream of requests never ends
NextRequest(q) ==
    /\ Running
    /\ rpc[q] = "done"
    /\ rpc' = [rpc EXCEPT ![q] = "idle"]
    /\ UNCHANGED <<watchVars, storeVars, heapVars, handlerVars, kvVars, concVars, mainVars, ptrVars, rwVars, rtVars, cbVars, current, resp,
                   lockVars, histVars>>

(* ---- the watcher callback (main, lines 65-73) and runtimeState.Swap ---- *)

\* the callback starts: BuildRuntime creates a fresh engine and runs the script
ReloadBegin ==
    /\ Running
    /\ ~watcherStopped
    /\ cbpc = "idle"
    /\ nbuilt < MaxReloads + 1
    /\ nbuilt' = nbuilt + 1
    /\ status' = [status EXCEPT ![nbuilt + 1] = "Building"]
    /\ next' = nbuilt + 1
    /\ cbpc' = "building"
    /\ UNCHANGED <<watchVars, storeVars, heapVars, handlerVars, kvVars, concVars, mainVars, ptrVars, rwVars, old, reqVars,
                   lockVars, histVars>>

\* BuildRuntime returns the runtime
BuildOK ==
    /\ Running
    /\ cbpc = "building"
    /\ status' = [status EXCEPT ![next] = "Built"]
    /\ cbpc' = "built"
    /\ UNCHANGED <<watchVars, storeVars, heapVars, handlerVars, kvVars, concVars, mainVars, ptrVars, rwVars, nbuilt, next, old,
                   reqVars, lockVars, histVars>>

\* BuildFail with the callback ignoring the error and going on to Swap
BuildFailThenSwap ==
    /\ Running
    /\ cbpc = "building"
    /\ status' = [status EXCEPT ![next] = "Failed"]
    /\ cbpc' = "built"
    /\ UNCHANGED <<watchVars, storeVars, heapVars, handlerVars, kvVars, concVars, mainVars, ptrVars, rwVars, nbuilt, next, old, reqVars,
                   lockVars, histVars>>

\* LoadScript fails: BuildRuntime closes the new engine and returns the
\* error; the callback logs it and returns
BuildFail ==
    /\ Running
    /\ cbpc = "building"
    /\ status' = [status EXCEPT ![next] = "Failed"]
    /\ next' = 0
    /\ cbpc' = "idle"
    /\ UNCHANGED <<watchVars, storeVars, heapVars, handlerVars, kvVars, concVars, mainVars, ptrVars, rwVars, nbuilt, old, reqVars,
                   lockVars, histVars>>

\* Swap: s.mu.Lock() announces the writer; readers arriving from now on block
SwapLock ==
    /\ Running
    /\ cbpc = "built"
    /\ wpending' = TRUE
    /\ cbpc' = "lockWait"
    /\ UNCHANGED <<watchVars, storeVars, heapVars, handlerVars, kvVars, concVars, mainVars, ptrVars, readers, wheld, rtVars, next, old,
                   reqVars, lockVars, histVars>>

\* SwapAcquire that does not wait for the readers
SwapAcquireNoWait ==
    /\ Running
    /\ cbpc = "lockWait"
    /\ wpending' = FALSE
    /\ wheld' = TRUE
    /\ cbpc' = "locked"
    /\ UNCHANGED <<watchVars, storeVars, heapVars, handlerVars, kvVars, concVars, mainVars, ptrVars, readers, rtVars, next, old, reqVars,
                   lockVars, histVars>>

\* Swap: s.mu.Lock() returns once every reader has released the lock
SwapAcquire ==
    /\ Running
    /\ cbpc = "lockWait"
    /\ readers = {}
    /\ wpending' = FALSE
    /\ wheld' = TRUE
    /\ cbpc' = "locked"
    /\ UNCHANGED <<watchVars, storeVars, heapVars, handlerVars, kvVars, concVars, mainVars, ptrVars, readers, rtVars, next, old, reqVars,
                   lockVars, histVars>>

\* Swap: old := s.runtime; s.runtime = next; s.mu.Unlock()
SwapPointer ==
    /\ Running
    /\ cbpc = "locked"
    /\ old' = runtime
    /\ runtime' = next
    /\ wheld' = FALSE
    /\ cbpc' = "close"
    /\ UNCHANGED <<watchVars, storeVars, heapVars, handlerVars, kvVars, concVars, mainVars, readers, wpending, rtVars, next, reqVars,
                   lockVars, histVars>>

\* SwapClose leaving the old engine open
SwapCloseNothing ==
    /\ Running
    /\ cbpc = "close"
    /\ cbpc' = "idle"
    /\ UNCHANGED <<watchVars, storeVars, heapVars, handlerVars, kvVars, concVars, mainVars, ptrVars, rwVars, rtVars, next, old,
                   reqVars, lockVars, histVars>>

\* Swap: if old != nil { old.Engine.Close() }
SwapClose ==
    /\ Running
    /\ cbpc = "close"
    /\ status' = IF old # 0 THEN [status EXCEPT ![old] = "Closed"] ELSE status
    /\ cbpc' = "idle"
    /\ UNCHANGED <<watchVars, storeVars, heapVars, handlerVars, kvVars, concVars, mainVars, ptrVars, rwVars, nbuilt, next, old,
                   reqVars, lockVars, histVars>>

(* ---- the handler closure of LuaEngine.attachRoute and LuaEngine.mu ---- *)
(* sync.Mutex as the Go runtime implements it: a goroutine that finds the   *)
(* lock free takes it, whether or not others are parked (normal mode); a    *)
(* parked goroutine is woken by Unlock in queue order and retries, going    *)
(* back to the front of the queue when it loses; one that has waited too    *)
(* long switches the lock to starvation mode, in which Unlock hands the     *)
(* lock to the head of the queue.                                           *)

\* the status codes the handler closure writes: 400 when the body cannot be
\* read, 500 when CallByParam returns an error, otherwise the script's
\* status, 200 standing for it
HandlerOutcomes == {200, 400, 500}

\* a sequence without the element x
Without(seq, x) == SelectSeq(seq, LAMBDA y : y # x)

\* where a woken waiter that lost the lock goes back into the wait queue
Requeue(queue, q) == <<q>> \o queue

\* LockFast without the test that the lock is free
LockFastNoCheck(q) ==
    /\ Running
    /\ rpc[q] = "routed"
    /\ eholder' = [eholder EXCEPT ![current[q]] = q]
    /\ rpc' = [rpc EXCEPT ![q] = "inScript"]
    /\ UNCHANGED <<watchVars, storeVars, heapVars, handlerVars, kvVars, concVars, mainVars, ptrVars, rwVars, rtVars, cbVars, current, resp,
                   equeue, ewoken, estarving, waiting>>

\* e.mu.Lock() finds the lock free and takes it: the script invocation begins
LockFast(q) ==
    /\ Running
    /\ rpc[q] = "routed"
    /\ eholder[current[q]] = 0
    /\ ~estarving[current[q]]
    /\ eholder' = [eholder EXCEPT ![current[q]] = q]
    /\ rpc' = [rpc EXCEPT ![q] = "inScript"]
    /\ UNCHANGED <<watchVars, storeVars, heapVars, handlerVars, kvVars, concVars, mainVars, ptrVars, rwVars, rtVars, cbVars, current, resp,
                   equeue, ewoken, estarving, waiting>>

\* e.mu.Lock() finds the lock held and parks at the tail of the wait queue
LockPark(q) ==
    /\ Running
    /\ rpc[q] = "routed"
    /\ eholder[current[q]] # 0 \/ estarving[current[q]]
    /\ equeue' = [equeue EXCEPT ![current[q]] = Append(@, q)]
    /\ rpc' = [rpc EXCEPT ![q] = "parked"]
    /\ waiting' = Append(waiting, q)
    /\ UNCHANGED <<watchVars, storeVars, heapVars, handlerVars, kvVars, concVars, mainVars, ptrVars, rwVars, rtVars, cbVars, current, resp,
                   eholder, ewoken, estarving>>

\* a woken waiter retries and finds the lock free
RetryAcquire(q) ==
    /\ Running
    /\ rpc[q] = "woken"
    /\ eholder[current[q]] = 0
    /\ eholder' = [eholder EXCEPT ![current[q]] = q]
    /\ ewoken' = [ewoken EXCEPT ![current[q]] = 0]
    /\ rpc' = [rpc EXCEPT ![q] = "inScript"]
    /\ waiting' = Without(waiting, q)
    /\ UNCHANGED <<watchVars, storeVars, heapVars, handlerVars, kvVars, concVars, mainVars, ptrVars, rwVars, rtVars, cbVars, current, resp,
                   equeue, estarving>>

\* a woken waiter retries, finds the lock taken by a later arrival and parks
\* again; if it has waited longer than the starvation threshold it switches
\* the lock to starvation mode
RetryPark(q) ==
    /\ Running
    /\ rpc[q] = "woken"
    /\ eholder[current[q]] # 0
    /\ equeue' = [equeue EXCEPT ![current[q]] = Requeue(@, q)]
    /\ ewoken' = [ewoken EXCEPT ![current[q]] = 0]
    /\ \E starving \in BOOLEAN :
          estarving' = [estarving EXCEPT ![current[q]] = starving]
    /\ rpc' = [rpc EXCEPT ![q] = "parked"]
    /\ UNCHANGED <<watchVars, storeVars, heapVars, handlerVars, kvVars, concVars, mainVars, ptrVars, rwVars, rtVars, cbVars, current, resp,
                   eholder, histVars>>

\* Finish without the deferred Unlock on the two error paths
FinishErrorKeepsLock(q) ==
    /\ Running
    /\ rpc[q] = "inScript"
    /\ equeue[current[q]] = <<>> \/ (ewoken[current[q]] # 0 /\ ~estarving[current[q]])
    /\ \E code \in HandlerOutcomes :
          /\ resp' = [resp EXCEPT ![q] = code]
          /\ eholder' = IF code = 200 THEN [eholder EXCEPT ![current[q]] = 0]
                        ELSE eholder
    /\ rpc' = [rpc EXCEPT ![q] = "served"]
    /\ UNCHANGED <<watchVars, storeVars, heapVars, handlerVars, kvVars, concVars, mainVars, ptrVars, rwVars, rtVars, cbVars, current,
                   equeue, ewoken, estarving, histVars>>

\* the handler body has run (requestToLuaTable, CallByParam, the response)
\* and the deferred e.mu.Unlock() releases the lock with nobody to wake
Finish(q) ==
    /\ Running
    /\ rpc[q] = "inScript"
    /\ equeue[current[q]] = <<>> \/ (ewoken[current[q]] # 0 /\ ~estarving[current[q]])
    /\ \E code \in HandlerOutcomes : resp' = [resp EXCEPT ![q] = code]
    /\ eholder' = [eholder EXCEPT ![current[q]] = 0]
    /\ rpc' = [rpc EXCEPT ![q] = "served"]
    /\ UNCHANGED <<watchVars, storeVars, heapVars, handlerVars, kvVars, concVars, mainVars, ptrVars, rwVars, rtVars, cbVars, current,
                   equeue, ewoken, estarving, histVars>>

\* FinishWake waking the most recently parked waiter instead of the head
FinishWakeLast(q) ==
    /\ Running
    /\ rpc[q] = "inScript"
    /\ equeue[current[q]] # <<>>
    /\ ewoken[current[q]] = 0
    /\ ~estarving[current[q]]
    /\ \E code \in HandlerOutcomes : resp' = [resp EXCEPT ![q] = code]
    /\ eholder' = [eholder EXCEPT ![current[q]] = 0]
    /\ LET queue == equeue[current[q]]
           last == queue[Len(queue)]
       IN  /\ ewoken' = [ewoken EXCEPT ![current[q]] = last]
           /\ equeue' = [equeue EXCEPT ![current[q]] = SubSeq(queue, 1, Len(queue) - 1)]
           /\ rpc' = [rpc EXCEPT ![q] = "served", ![last] = "woken"]
    /\ UNCHANGED <<watchVars, storeVars, heapVars, handlerVars, kvVars, concVars, mainVars, ptrVars, rwVars, rtVars, cbVars, current,
                   estarving, histVars>>

\* the same, and e.mu.Unlock() in normal mode wakes the head of the queue
FinishWake(q) ==
    /\ Running
    /\ rpc[q] = "inScript"
    /\ equeue[current[q]] # <<>>
    /\ ewoken[current[q]] = 0
    /\ ~estarving[current[q]]
    /\ \E code \in HandlerOutcomes : resp' = [resp EXCEPT ![q] = code]
    /\ eholder' = [eholder EXCEPT ![current[q]] = 0]
    /\ ewoken' = [ewoken EXCEPT ![current[q]] = Head(equeue[current[q]])]
    /\ equeue' = [equeue EXCEPT ![current[q]] = Tail(@)]
    /\ rpc' = [rpc EXCEPT ![q] = "served",
                          ![Head(equeue[current[q]])] = "woken"]
    /\ UNCHANGED <<watchVars, storeVars, heapVars, handlerVars, kvVars, concVars, mainVars, ptrVars, rwVars, rtVars, cbVars, current,
                   estarving, histVars>>

\* the same, and e.mu.Unlock() in starvation mode hands the lock to the head
\* of the queue, whose script invocation begins; the mode ends with the last
\* waiter, or with one that has not waited long
FinishHandoff(q) ==
    /\ Running
    /\ rpc[q] = "inScript"
    /\ equeue[current[q]] # <<>>
    /\ estarving[current[q]]
    /\ \E code \in HandlerOutcomes : resp' = [resp EXCEPT ![q] = code]
    /\ eholder' = [eholder EXCEPT ![current[q]] = Head(equeue[current[q]])]
    /\ equeue' = [equeue EXCEPT ![current[q]] = Tail(@)]
    /\ \E starving \in BOOLEAN :
          /\ Tail(equeue[current[q]]) = <<>> => ~starving
          /\ estarving' = [estarving EXCEPT ![current[q]] = starving]
    /\ rpc' = [rpc EXCEPT ![q] = "served",
                          ![Head(equeue[current[q]])] = "inScript"]
    /\ waiting' = Without(waiting, Head(equeue[current[q]]))
    /\ UNCHANGED <<watchVars, storeVars, heapVars, handlerVars, kvVars, concVars, mainVars, ptrVars, rwVars, rtVars, cbVars, current,
                   ewoken>>

(* ---- shutdown (main, lines 61 and 86-98) ---- *)

\* SIGINT or SIGTERM cancels the context of signal.NotifyContext
Signal ==
    /\ Running
    /\ ~ctxDone
    /\ ctxDone' = TRUE
    /\ UNCHANGED <<watchVars, storeVars, heapVars, handlerVars, kvVars, concVars, mainpc, watcherStopped, shutpc, graceExpired, ptrVars,
                   rwVars, rtVars, cbVars, reqVars, lockVars, histVars>>

\* ScriptWatcher.Run takes its ctx.Done case and returns
WatcherStop ==
    /\ Running
    /\ ctxDone
    /\ cbpc = "idle"
    /\ ~watcherStopped
    /\ watcherStopped' = TRUE
    /\ UNCHANGED <<watchVars, storeVars, heapVars, handlerVars, kvVars, concVars, mainpc, ctxDone, shutpc, graceExpired, ptrVars, rwVars,
                   rtVars, cbVars, reqVars, lockVars, histVars>>

\* the shutdown goroutine passes <-ctx.Done() and calls server.Shutdown with
\* the 5 s context: the listener is closed
ShutdownBegin ==
    /\ Running
    /\ ctxDone
    /\ shutpc = "wait"
    /\ shutpc' = "shutting"
    /\ UNCHANGED <<watchVars, storeVars, heapVars, handlerVars, kvVars, concVars, mainpc, ctxDone, watcherStopped, graceExpired, ptrVars,
                   rwVars, rtVars, cbVars, reqVars, lockVars, histVars>>

\* the context of context.WithTimeout(..., 5*time.Second) expires
GraceExpire ==
    /\ Running
    /\ shutpc = "shutting"
    /\ ~graceExpired
    /\ graceExpired' = TRUE
    /\ UNCHANGED <<watchVars, storeVars, heapVars, handlerVars, kvVars, concVars, mainpc, ctxDone, watcherStopped, shutpc, ptrVars, rwVars,
                   rtVars, cbVars, reqVars, lockVars, histVars>>

\* server.Shutdown returns: every connection is idle, or the context expired
ShutdownDone ==
    /\ Running
    /\ shutpc = "shutting"
    /\ (\A q \in Req : ~InFlight(q)) \/ graceExpired
    /\ shutpc' = "done"
    /\ UNCHANGED <<watchVars, storeVars, heapVars, handlerVars, kvVars, concVars, mainpc, ctxDone, watcherStopped, graceExpired, ptrVars,
                   rwVars, rtVars, cbVars, reqVars, lockVars, histVars>>

\* when main may leave ListenAndServe: net/http makes ListenAndServe return
\* ErrServerClosed as soon as Shutdown has been called
ListenAndServeReturns == shutpc \in {"shutting", "done"}

\* ListenAndServe returns http.ErrServerClosed and main returns: the process
\* ends, and every goroutine with it
MainReturn ==
    /\ Running
    /\ ListenAndServeReturns
    /\ mainpc' = "returned"
    /\ UNCHANGED <<watchVars, storeVars, heapVars, handlerVars, kvVars, concVars, ctxDone, watcherStopped, shutpc, graceExpired, ptrVars,
                   rwVars, rtVars, cbVars, reqVars, lockVars, histVars>>

(* ---- the key/value store (sugardb.Store) and the scripts that use it ---- *)
(* main creates one Store and hands it to every BuildRuntime.              *)
(* registerSugarDBModule binds sugardb.get, set and delete of the new       *)
(* scripting environment to it. Script code calls them: a handler while it  *)
(* runs under e.mu, and the top level of the script while LoadScript runs   *)
(* it during BuildRuntime. Each call is atomic under Store.mu.              *)

Keys == {"k"}

\* the value the handlers set, and the value a script sets at its top level
HandlerValues == {"a"}

ScriptValues == {"b"}

\* what Get gives for a key that is not in the map: (nil, false)
Absent == "absent"

NoWriter == [by |-> "none", gen |-> 0, value |-> Absent]

NoCall2 == [op |-> "none", by |-> "none", gen |-> 0, value |-> Absent]

\* NewStore: an empty map
InitKV ==
    /\ kv = [key \in {} |-> Absent]
    /\ written = NoWriter
    /\ kvop = NoCall2

\* Store.Get: value, ok := s.data[key]
Get(key) == IF key \in DOMAIN kv THEN kv[key] ELSE Absent

\* Store.Set: s.data[key] = value
Set(key, value) ==
    [k \in DOMAIN kv \cup {key} |-> IF k = key THEN value ELSE kv[k]]

\* Store.Delete keeping the key
DeleteKeepsKey(key) == kv

\* Store.Delete: delete(s.data, key) if the key is there
DeleteKey(key) == [k \in DOMAIN kv \ {key} |-> kv[k]]

\* the rest of the lifecycle is untouched by a store call
KVFrame == UNCHANGED <<lifeVars, watchVars, storeVars, heapVars, concVars,
                       handlerVars>>

\* sugarGet called by the handler of request q
HandlerGet(q, key) ==
    /\ Running
    /\ rpc[q] = "inScript"
    /\ kvop' = [op |-> "get", by |-> "handler", gen |-> current[q],
                value |-> Get(key)]
    /\ UNCHANGED <<kv, written>>
    /\ KVFrame

\* sugarSet called by the handler of request q
HandlerSet(q, key, value) ==
    /\ Running
    /\ rpc[q] = "inScript"
    /\ kv' = Set(key, value)
    /\ written' = [by |-> "handler", gen |-> current[q], value |-> value]
    /\ kvop' = [op |-> "set", by |-> "handler", gen |-> current[q],
                value |-> value]
    /\ KVFrame

\* sugarDelete called by the handler of request q
HandlerDelete(q, key) ==
    /\ Running
    /\ rpc[q] = "inScript"
    /\ kv' = DeleteKey(key)
    /\ written' = IF key \in DOMAIN kv
                  THEN [by |-> "handler", gen |-> current[q], value |-> Absent]
                  ELSE written
    /\ kvop' = [op |-> "delete", by |-> "handler", gen |-> current[q],
                value |-> Absent]
    /\ KVFrame

\* sugarSet called by the top level of the script that LoadScript runs
\* for the runtime being built
BuildScriptSet(key, value) ==
    /\ Running
    /\ cbpc = "building"
    /\ kv' = Set(key, value)
    /\ written' = [by |-> "build", gen |-> next, value |-> value]
    /\ kvop' = [op |-> "set", by |-> "build", gen |-> next, value |-> value]
    /\ KVFrame

\* requests whose handlers use the store, and reloads
NextShared ==
    \/ InitialBuildOK
    \/ \E q \in Req : Arrive(q)
    \/ \E q \in Req : RLock(q)
    \/ \E q \in Req : ReadRuntime(q)
    \/ \E q \in Req : LockFast(q)
    \/ \E q \in Req : Finish(q)
    \/ \E q \in Req : RUnlock(q)
    \/ \E q \in Req, key \in Keys : HandlerGet(q, key)
    \/ \E q \in Req, key \in Keys, value \in HandlerValues : HandlerSet(q, key, value)
    \/ \E q \in Req, key \in Keys : HandlerDelete(q, key)
    \/ \E key \in Keys, value \in ScriptValues : BuildScriptSet(key, value)
    \/ ReloadBegin
    \/ BuildOK
    \/ BuildFail
    \/ SwapLock
    \/ SwapAcquire
    \/ SwapPointer
    \/ SwapClose

(* ======================================================================= *)
(* Claims about the runtime lifecycle, checked under Spec                  *)
(* ======================================================================= *)

\* whether x occurs in seq
InSeq(seq, x) == \E i \in 1..Len(seq) : seq[i] = x

\* the place of x in seq
Pos(seq, x) == CHOOSE i \in 1..Len(seq) : seq[i] = x

\* the scripting environment of runtime r has been torn down
EngineClosed(r) == status[r] \in {"Closed", "Failed"}

\* C1: in every interleaving of requests and reloads no request is executing
\* against a runtime whose scripting environment has been closed: a request
\* that has captured a runtime and not yet finished finds it built and open,
\* and the live pointer never names a closed runtime while the server serves,
\* so a request starting after Close has begun is not routed to that runtime.
C1_NoRequestOnClosedRuntime ==
    /\ \A q \in Req : Captured(q) =>
          /\ current[q] \in Runtimes
          /\ ~EngineClosed(current[q])
    /\ Running => /\ runtime \in Runtimes
                  /\ ~EngineClosed(runtime)

\* C1 witness: Swap has closed the first runtime after a request finished,
\* and a later request is running against the second runtime
C1_Witness ==
    /\ status[1] = "Closed"
    /\ \E q \in Req : rpc[q] = "done"
    /\ \E q \in Req : rpc[q] = "inScript" /\ current[q] = 2

\* C2: during a reload triggered while requests are in flight all of them
\* complete against the pre-reload runtime: every request in flight uses the
\* runtime it read at entry, which is still the live one and has finished
\* building, and the live pointer does not change in any step taken while a
\* request holds the read lock.
C2_InFlightKeepRuntime ==
    /\ [](\A q \in Req : Captured(q) =>
             /\ current[q] = runtime
             /\ status[current[q]] = "Built")
    /\ [][readers # {} => runtime' = runtime]_vars

\* C2 witness: a reload waits for the write lock while two requests have
\* been processed by the pre-reload runtime and still hold the read lock
C2_Witness ==
    /\ cbpc = "lockWait"
    /\ \E q1, q2 \in Req :
          /\ q1 # q2
          /\ rpc[q1] = "served" /\ resp[q1] = 200 /\ current[q1] = runtime
          /\ rpc[q2] = "served" /\ resp[q2] = 200 /\ current[q2] = runtime

\* C3: when the build step of a reload fails, that step leaves the live
\* pointer unchanged, the live runtime open and the process serving; the
\* runtime that failed to build is never the live runtime, no request is
\* ever routed to it, and it never leaves the failed state.
C3_BuildFailureKeepsLive ==
    /\ [][(cbpc = "building" /\ cbpc' # "building" /\ status'[next] = "Failed") =>
             /\ runtime' = runtime
             /\ status'[runtime] = "Built"
             /\ mainpc' = "serving"
             /\ cbpc' = "idle"]_vars
    /\ [](\A r \in Runtimes : status[r] = "Failed" =>
             /\ runtime # r
             /\ \A q \in Req : current[q] # r)
    /\ [][\A r \in Runtimes : status[r] = "Failed" => status'[r] = "Failed"]_vars
    /\ [](mainpc = "exited" => nbuilt = 1)

\* C3 witness: after a reload failed to build, the previously live runtime
\* answers a request
C3_Witness ==
    /\ Running
    /\ status[2] = "Failed"
    /\ runtime = 1
    /\ \E q \in Req : rpc[q] = "served" /\ resp[q] = 200 /\ current[q] = 1

\* C4: for any number of concurrent requests against one runtime at most one
\* handler invocation is inside that runtime's scripting environment at any
\* time, whatever routes the requests are for, and it holds the dispatch lock.
C4_OneInvocationPerRuntime ==
    \A q1, q2 \in Req :
        (rpc[q1] = "inScript" /\ rpc[q2] = "inScript" /\ current[q1] = current[q2])
            => (q1 = q2 /\ eholder[current[q1]] = q1)

\* C4 witness: one request is inside the scripting environment while a
\* request for another route waits for the same runtime's dispatch lock
C4_Witness ==
    \E q1, q2 \in Req :
        /\ rpc[q1] = "inScript"
        /\ rpc[q2] = "parked"
        /\ current[q1] = current[q2]
        /\ Route(q1) # Route(q2)

\* C5 as stated: requests are served in arrival order, so a request never
\* begins its script invocation while a request that called e.mu.Lock()
\* before it still waits for the same lock.
C5_ArrivalOrder ==
    [][\A q \in Req : (rpc[q] # "inScript" /\ rpc'[q] = "inScript") =>
          \A p \in Req \ {q} :
              (InSeq(waiting, p) /\ current[p] = current[q]) =>
                  (InSeq(waiting, q) /\ Pos(waiting, q) < Pos(waiting, p))]_vars

\* C5 as amended: script invocations are one at a time, and among the
\* requests parked on one runtime's dispatch lock the order is arrival
\* order: a parked request begins its script invocation only when no
\* request that parked before it still waits for the same lock. (A request
\* that calls e.mu.Lock() while the lock is free is not held back.)
C5_ParkedInArrivalOrder ==
    [][\A q \in Req : (rpc[q] \in {"parked", "woken"} /\ rpc'[q] = "inScript") =>
          \A p \in Req \ {q} :
              (InSeq(waiting, p) /\ current[p] = current[q]) =>
                  Pos(waiting, q) < Pos(waiting, p)]_vars

\* C5 witness: a parked request has been woken and is about to take the
\* lock while a later arrival is parked behind it
C5_Witness ==
    \E r \in Runtimes :
        /\ ewoken[r] # 0
        /\ eholder[r] = 0
        /\ equeue[r] # <<>>
        /\ Pos(waiting, ewoken[r]) < Pos(waiting, Head(equeue[r]))

\* where runtime r is in its life: "Building" until Swap has stored it in
\* the pointer, "Live" while the pointer names it, "Draining" from the
\* pointer swap until its engine is closed, "Closed" after that; "Failed"
\* when BuildRuntime gave it up
Phase(r) ==
    CASE status[r] = "None"     -> "None"
      [] status[r] = "Building" -> "Building"
      [] status[r] = "Failed"   -> "Failed"
      [] status[r] = "Closed"   -> "Closed"
      [] status[r] = "Built"    -> IF r = runtime THEN "Live"
                                   ELSE IF r < runtime THEN "Draining"
                                   ELSE "Building"

\* the order of the phases
Rank(phase) ==
    CASE phase = "None"     -> 0
      [] phase = "Building" -> 1
      [] phase = "Live"     -> 2
      [] phase = "Draining" -> 3
      [] phase = "Closed"   -> 4
      [] phase = "Failed"   -> 4

InPhase(phase) == {r \in Runtimes : Phase(r) = phase}

\* C22: every runtime moves only forward through Building, Live, Draining,
\* Closed (a runtime is closed only from Draining and given up only while
\* it is built, the initial build being one step), at most one runtime is Live and at most one is Draining in
\* every reachable state, a runtime that was swapped out never becomes live
\* again, and a reload starts its Swap only when no runtime is Draining.
C22_ForwardOnlyOneLiveOneDraining ==
    /\ [][\A r \in Runtimes :
            /\ Rank(Phase(r))' >= Rank(Phase(r))
            /\ (Phase(r)' = "Closed" /\ Phase(r) # "Closed") => Phase(r) = "Draining"
            /\ (Phase(r)' = "Failed" /\ Phase(r) # "Failed")
                  => Phase(r) \in {"None", "Building"}
            /\ Phase(r) \in {"Draining", "Closed"} => runtime' # r]_vars
    /\ [](/\ Cardinality(InPhase("Live")) <= 1
          /\ Cardinality(InPhase("Draining")) <= 1)
    /\ [](cbpc \in {"lockWait", "locked"} => InPhase("Draining") = {})

\* C22 witness: the second reload has swapped: the first runtime is closed,
\* the second is draining and the third is live
C22_Witness ==
    /\ Phase(1) = "Closed"
    /\ Phase(2) = "Draining"
    /\ Phase(3) = "Live"

\* C23: a reload that waits for the write lock is delayed only by the
\* requests that were in flight when it started waiting: while it waits no
\* request gets the read lock, and it gets the write lock in the end, also
\* when requests keep arriving without end.
C23_ReloadWaitsOnlyForInFlight ==
    /\ [][(cbpc = "lockWait" /\ cbpc' = "lockWait") => readers' \subseteq readers]_vars
    /\ (cbpc = "lockWait") ~> (cbpc = "locked")

\* C23 witness: a reload waits for the write lock behind a request that
\* holds the read lock, and two requests that arrived afterwards wait for
\* the read lock
C23_Witness ==
    /\ cbpc = "lockWait"
    /\ readers # {}
    /\ Cardinality({q \in Req : rpc[q] = "rlockWait"}) >= 2

\* C25: a request releases the dispatch lock and the read lock on every
\* exit path, whatever status its handler closure wrote, and nothing waits
\* for ever: every request that was accepted completes, and every reload
\* whose build succeeded swaps the pointer.
C25_NoDeadlock ==
    /\ [](\A q \in Req :
            /\ rpc[q] = "served" => \A r \in Runtimes : eholder[r] # q
            /\ rpc[q] \in {"idle", "done"} =>
                  (q \notin readers /\ \A r \in Runtimes : eholder[r] # q))
    /\ \A q \in Req : (rpc[q] = "rlockWait") ~> (rpc[q] = "done")
    /\ (cbpc = "built") ~> (cbpc = "close" /\ runtime = next)

\* C25 witness: a request that was answered 500 has left, a request that
\* was answered 400 still holds the read lock, a third request runs in the
\* script, and a reload whose build succeeded waits for the write lock
C25_Witness ==
    /\ cbpc = "lockWait"
    /\ \E q1, q2, q3 \in Req :
          /\ rpc[q1] = "done"
          /\ rpc[q2] = "served" /\ resp[q2] = 400
          /\ rpc[q3] = "inScript"

\* C8 as stated: main returns only after the requests in flight have
\* finished or the grace period has expired.
C8_ReturnAfterDrainOrGrace ==
    mainpc = "returned" => ((\A q \in Req : ~InFlight(q)) \/ graceExpired)

(* ======================================================================= *)
(* ScriptWatcher.Run: the select loop, with a discrete clock               *)
(* ======================================================================= *)

InitWatch ==
    /\ wpc = "select"
    /\ timer = "nil"
    /\ timerLeft = 0
    /\ events = <<>>
    /\ wctxDone = FALSE
    /\ runErr = FALSE
    /\ lagged = FALSE
    /\ narrived = 0
    /\ sinceArrival = Debounce
    /\ nbursts = 0
    /\ ncallbacks = 0

\* the kinds of event fsnotify reports for the directory: one that passes
\* both filters of Run (the target path, and Write, Create or Rename), one
\* for another path, one for the target path with another operation
EventKinds == {"qualifying", "otherPath", "otherOp"}

\* Run's filters: event.Name == s.path and
\* event.Op & (Write|Create|Rename) != 0
Qualifies(kind) == kind = "qualifying"

Min(a, b) == IF a < b THEN a ELSE b

\* some case of the select (other than watcher.Errors) can proceed
SelectReady == events # <<>> \/ timer = "fired" \/ wctxDone

\* fsnotify has an event to send on watcher.Events; a qualifying event that
\* arrives Debounce ticks or more after the previous one starts a new burst
EventArrives(kind) ==
    /\ wpc # "returned"
    /\ narrived < MaxEvents
    /\ narrived' = narrived + 1
    /\ events' = Append(events, kind)
    /\ sinceArrival' = IF Qualifies(kind) THEN 0 ELSE sinceArrival
    /\ nbursts' = IF Qualifies(kind) /\ sinceArrival >= Debounce
                  THEN nbursts + 1 ELSE nbursts
    /\ UNCHANGED <<lifeVars, storeVars, heapVars, handlerVars, kvVars, concVars, lagged, wpc, timer, timerLeft, wctxDone,
                   runErr, ncallbacks>>

\* one clock tick passes: a running timer comes closer to firing and fires
\* (sends on timer.C) when its time is up. The goroutine of Run is scheduled
\* within a tick: a select with a case that can proceed lets at most one
\* tick boundary pass before it takes a case.
Tick ==
    /\ wpc # "returned"
    /\ timer = "running" \/ sinceArrival < Debounce
    /\ ~(wpc = "select" /\ SelectReady /\ lagged)
    /\ lagged' = (wpc = "select" /\ SelectReady)
    /\ timerLeft' = IF timer = "running" THEN timerLeft - 1 ELSE timerLeft
    /\ timer' = IF timer = "running" /\ timerLeft = 1 THEN "fired" ELSE timer
    /\ sinceArrival' = Min(sinceArrival + 1, Debounce)
    /\ UNCHANGED <<lifeVars, storeVars, heapVars, handlerVars, kvVars, concVars, wpc, events, wctxDone, runErr, narrived, nbursts,
                   ncallbacks>>

\* the context passed to Run is cancelled
Cancel ==
    /\ wpc # "returned"
    /\ ~wctxDone
    /\ wctxDone' = TRUE
    /\ UNCHANGED <<lifeVars, storeVars, heapVars, handlerVars, kvVars, concVars, lagged, wpc, timer, timerLeft, events, runErr,
                   narrived, sinceArrival, nbursts, ncallbacks>>

\* select takes case event := <-watcher.Events and the event fails a filter
SelectOtherEvent ==
    /\ wpc = "select"
    /\ events # <<>>
    /\ ~Qualifies(Head(events))
    /\ events' = Tail(events)
    /\ lagged' = FALSE
    /\ UNCHANGED <<lifeVars, storeVars, heapVars, handlerVars, kvVars, concVars, wpc, timer, timerLeft, wctxDone, runErr,
                   narrived, sinceArrival, nbursts, ncallbacks>>

\* select takes case event := <-watcher.Events and the event qualifies: the
\* old timer is stopped (and its channel drained if it had fired) and a new
\* one is started
SelectQualifyingEvent ==
    /\ wpc = "select"
    /\ events # <<>>
    /\ Qualifies(Head(events))
    /\ events' = Tail(events)
    /\ timer' = "running"
    /\ timerLeft' = Debounce
    /\ lagged' = FALSE
    /\ UNCHANGED <<lifeVars, storeVars, heapVars, handlerVars, kvVars, concVars, wpc, wctxDone, runErr, narrived, sinceArrival,
                   nbursts, ncallbacks>>

\* select takes case err := <-watcher.Errors with a non-nil error: Run
\* returns it
SelectError ==
    /\ wpc = "select"
    /\ wpc' = "returned"
    /\ runErr' = TRUE
    /\ lagged' = FALSE
    /\ UNCHANGED <<lifeVars, storeVars, heapVars, handlerVars, kvVars, concVars, timer, timerLeft, events, wctxDone, narrived,
                   sinceArrival, nbursts, ncallbacks>>

\* select takes case <-ctx.Done(): the timer is stopped and Run returns nil
SelectDone ==
    /\ wpc = "select"
    /\ wctxDone
    /\ timer' = "nil"
    /\ timerLeft' = 0
    /\ wpc' = "returned"
    /\ lagged' = FALSE
    /\ UNCHANGED <<lifeVars, storeVars, heapVars, handlerVars, kvVars, concVars, events, wctxDone, runErr, narrived,
                   sinceArrival, nbursts, ncallbacks>>

\* select takes case <-debounce: timer and debounce are set to nil and
\* trigger() calls onChange
SelectDebounce ==
    /\ wpc = "select"
    /\ timer = "fired"
    /\ timer' = "nil"
    /\ timerLeft' = 0
    /\ wpc' = "callback"
    /\ ncallbacks' = ncallbacks + 1
    /\ lagged' = FALSE
    /\ UNCHANGED <<lifeVars, storeVars, heapVars, handlerVars, kvVars, concVars, events, wctxDone, runErr, narrived,
                   sinceArrival, nbursts>>

\* onChange returns and the loop goes back to select
CallbackReturns ==
    /\ wpc = "callback"
    /\ wpc' = "select"
    /\ UNCHANGED <<lifeVars, storeVars, heapVars, handlerVars, kvVars, concVars, lagged, timer, timerLeft, events, wctxDone,
                   runErr, narrived, sinceArrival, nbursts, ncallbacks>>

NextWatch ==
    \/ \E kind \in EventKinds : EventArrives(kind)
    \/ Tick
    \/ Cancel
    \/ SelectOtherEvent
    \/ SelectQualifyingEvent
    \/ SelectError
    \/ SelectDone
    \/ SelectDebounce
    \/ CallbackReturns

(* ======================================================================= *)
(* Claims about the change watcher, checked under SpecWatcher              *)
(* ======================================================================= *)

\* C6 as stated: qualifying events that arrive within the debounce interval
\* of each other produce one invocation of onChange, so there are never more
\* invocations than bursts of qualifying events.
C6_OneInvocationPerBurst == ncallbacks <= nbursts

\* C7 as stated: no invocation of onChange begins once the context is
\* cancelled.
C7_NoCallbackAfterCancel ==
    [][(wpc # "callback" /\ wpc' = "callback") => ~wctxDone]_vars

(* ======================================================================= *)
(* db.Store: Open, Query, Insert, Update, Delete and the backing file      *)
(* ======================================================================= *)

(* A value is [t |-> type, v |-> value]: t is "int" (a Go int, which only   *)
(* Insert's s.nextID produces), "float" (a float64: every number that comes *)
(* from Lua or from json.Unmarshal) or "str". In the file a number is       *)
(* [t |-> "num"]: JSON does not tell the two apart.                         *)
IntV(n)   == [t |-> "int", v |-> n]
FloatV(n) == [t |-> "float", v |-> n]
StrV(x)   == [t |-> "str", v |-> x]

\* Record{}: the record without fields
EmptyRecord == [k \in {} |-> 0]

\* map[string][]Record{}: no collection
NoCollections == [c \in {} |-> <<>>]

\* the database path of the -db flag: memory only, or a file
Paths == {"", "sugardb.json"}

\* collection names passed to the store; "" is the invalid one
CollectionArgs == {"", "users", "logs"}

\* the records passed to Insert: with and without an explicit id
InsertArgs ==
    { [role |-> StrV("pilot")],
      [id |-> FloatV(1)] }

\* the criteria passed to Query, Update and Delete
CriteriaArgs ==
    { EmptyRecord,
      [role |-> StrV("pilot")],
      [id |-> FloatV(1)] }

\* the patch passed to Update: it changes the role and leaves the id
PatchArgs ==
    { [role |-> StrV("commander")] }

\* a save may succeed or fail (MkdirAll, MarshalIndent or WriteFile's open
\* returning an error, which leaves the file as it was)
SaveOutcomes == {"ok", "error"}

\* numberValue's second result: the value is an int or a float
IsNumber(value) == value.t \in {"int", "float"}

\* numberValue's first result
NumberOf(value) == value.v

\* valuesEqual with reflect.DeepEqual alone
valuesEqualDeep(left, right) == left = right

\* valuesEqual: numbers by numeric value, the rest by reflect.DeepEqual
valuesEqual(left, right) ==
    IF IsNumber(left) /\ IsNumber(right)
    THEN NumberOf(left) = NumberOf(right)
    ELSE left = right

\* matches
matches(record, criteria) ==
    \/ DOMAIN criteria = {}
    \/ \A key \in DOMAIN criteria :
          /\ key \in DOMAIN record
          /\ valuesEqual(record[key], criteria[key])

\* cloneRecord: a new map with the same keys and values
cloneRecord(record) == [key \in DOMAIN record |-> record[key]]

\* the numeric ids of the records of d, as maxID reads them
NumericIDs(d) ==
    { NumberOf(d[c][i]["id"]) :
        <<c, i>> \in { ci \in (DOMAIN d) \X (1..MaxInserts) :
                         /\ ci[2] <= Len(d[ci[1]])
                         /\ "id" \in DOMAIN d[ci[1]][ci[2]]
                         /\ IsNumber(d[ci[1]][ci[2]]["id"]) } }

\* maxID that looks at no record
maxIDNoRecords(d) == 0

\* Store.maxID: the largest numeric id in any collection, 0 without one
maxID(d) ==
    LET ids == NumericIDs(d) \cup {0}
    IN  CHOOSE m \in ids : \A n \in ids : n <= m

\* json.MarshalIndent of a value: an int and a float are both a JSON number
ToJSON(value) == IF IsNumber(value) THEN [t |-> "num", v |-> value.v] ELSE value

\* json.Unmarshal of a value into any: a JSON number becomes a float64
FromJSON(value) == IF value.t = "num" THEN FloatV(value.v) ELSE value

\* json.MarshalIndent(s.data)
Encode(d) ==
    [c \in DOMAIN d |->
        [i \in 1..Len(d[c]) |->
            [key \in DOMAIN d[c][i] |-> ToJSON(d[c][i][key])]]]

\* json.Unmarshal(payload, &store.data)
Decode(doc) ==
    [c \in DOMAIN doc |->
        [i \in 1..Len(doc[c]) |->
            [key \in DOMAIN doc[c][i] |-> FromJSON(doc[c][i][key])]]]

\* s.data[collection], nil for a collection the map does not hold
Records(d, collection) == IF collection \in DOMAIN d THEN d[collection] ELSE <<>>

\* s.data[collection] = records
WithCollection(d, collection, records) ==
    [c \in DOMAIN d \cup {collection} |->
        IF c = collection THEN records ELSE d[c]]

\* a saveLocked that takes every store to have a file
InMemoryNever == FALSE

\* saveLocked's first test: a store without a path saves nothing
InMemory == path = ""

\* a saveLocked that writes nothing
SavedNever(d, outcome) == file

\* the file after saveLocked: untouched for a store without a path or when
\* the save fails, else the whole map as JSON
Saved(d, outcome) ==
    IF InMemory \/ outcome = "error" THEN file
    ELSE [exists |-> TRUE, doc |-> Encode(d)]

\* saveLocked returns an error
SaveFails(outcome) == ~InMemory /\ outcome = "error"

\* no file at the path
NoFile == [exists |-> FALSE, doc |-> NoCollections]

\* a save can have this outcome: a store without a path never fails to save
CanSave(outcome) ==
    \/ outcome = "ok"
    \/ ~InMemory /\ nfailed < MaxSaveFailures

\* the number of failed saves after a save
FailedAfter(outcome) == IF SaveFails(outcome) THEN nfailed + 1 ELSE nfailed

\* a mutation that is undone when the save fails
UndoneUnlessSaved(mutated, outcome) ==
    IF SaveFails(outcome) THEN data ELSE mutated

\* Store.data when Insert, Update or Delete returns: they change the map,
\* call saveLocked and return its error without touching the map again
Kept(mutated, outcome) == mutated

\* what a call returned: its error, its records, its count
NoOp == [op |-> "none", err |-> FALSE, res |-> <<>>, n |-> 0]

InitStore ==
    /\ opened = FALSE
    /\ path = ""
    /\ data = NoCollections
    /\ nextID = 0
    /\ file = NoFile
    /\ lastOp = NoOp
    /\ issuedLog = <<>>
    /\ openedAt = 0
    /\ ninserts = 0
    /\ nfailed = 0

\* Open(p): the first open of the process, or the process restarting and
\* opening the same file again. A store without a path, or whose file does
\* not exist, starts empty with nextID 1; else the file is read and nextID
\* is maxID() + 1.
Open(p) ==
    /\ ~opened \/ (p = path /\ path # "")
    /\ opened' = TRUE
    /\ path' = p
    /\ data' = IF p = "" \/ ~file.exists THEN NoCollections ELSE Decode(file.doc)
    /\ nextID' = IF p = "" \/ ~file.exists THEN 1 ELSE maxID(Decode(file.doc)) + 1
    /\ lastOp' = [NoOp EXCEPT !.op = "open"]
    /\ openedAt' = Len(issuedLog)
    /\ UNCHANGED <<lifeVars, watchVars, heapVars, handlerVars, kvVars, concVars, file, issuedLog, ninserts, nfailed>>

\* the test of the collection name that accepts every name
NamedOrNot(collection) == TRUE

\* the test each of Query, Insert, Update and Delete starts with: the
\* collection name is not empty
Named(collection) == collection # ""

\* Query, Insert, Update or Delete with an empty collection name: each of
\* the four starts with the same test and returns the error "collection is
\* required" before the lock is taken
EmptyCollection ==
    /\ opened
    /\ lastOp' = [NoOp EXCEPT !.op = "rejected", !.err = TRUE]
    /\ UNCHANGED <<lifeVars, watchVars, heapVars, handlerVars, kvVars, concVars, opened, path, data, nextID, file,
                   issuedLog, openedAt, ninserts, nfailed>>

\* Store.Query: copies of the records of the collection that match
Query(collection, criteria) ==
    /\ opened
    /\ Named(collection)
    /\ lastOp' = [NoOp EXCEPT
                    !.op = "query", 
                    !.res = SelectSeq([i \in 1..Len(Records(data, collection)) |->
                                          cloneRecord(Records(data, collection)[i])],
                                      LAMBDA record : matches(record, criteria))]
    /\ UNCHANGED <<lifeVars, watchVars, heapVars, handlerVars, kvVars, concVars, opened, path, data, nextID, file,
                   issuedLog, openedAt, ninserts, nfailed>>

\* Insert's copy with its id: the caller's id if the record has one, else
\* s.nextID
WithID(record, id) ==
    IF "id" \in DOMAIN record
    THEN cloneRecord(record)
    ELSE [key \in DOMAIN record \cup {"id"} |->
             IF key = "id" THEN IntV(id) ELSE record[key]]

\* s.nextID left as it was after Insert assigned it
NextIDKept(record, id) == id

\* s.nextID after Insert: incremented when Insert assigned the id
NextIDAfter(record, id) == IF "id" \in DOMAIN record THEN id ELSE id + 1

\* Store.Insert: the copy is appended, the map is saved, and a copy of the
\* stored record is returned unless the save failed
Insert(collection, record, outcome) ==
    /\ opened
    /\ Named(collection)
    /\ CanSave(outcome)
    /\ ninserts < MaxInserts
    /\ LET stored == WithID(record, nextID)
           newData == WithCollection(data, collection,
                                     Append(Records(data, collection), stored))
       IN  /\ data' = Kept(newData, outcome)
           /\ nextID' = NextIDAfter(record, nextID)
           /\ file' = Saved(newData, outcome)
           /\ issuedLog' = IF "id" \in DOMAIN record THEN issuedLog
                           ELSE Append(issuedLog, stored["id"].v)
           /\ lastOp' = [NoOp EXCEPT
                           !.op = "insert", !.err = SaveFails(outcome),
                           !.res = IF SaveFails(outcome) THEN <<>>
                                   ELSE <<cloneRecord(stored)>>]
    /\ ninserts' = ninserts + 1
    /\ nfailed' = FailedAfter(outcome)
    /\ UNCHANGED <<lifeVars, watchVars, heapVars, handlerVars, kvVars, concVars, opened, path, openedAt>>

\* the patch put in the place of the record
PatchedWhole(record, updates) == updates

\* a record with the fields of the patch written over it
Patched(record, updates) ==
    [key \in DOMAIN record \cup DOMAIN updates |->
        IF key \in DOMAIN updates THEN updates[key] ELSE record[key]]

\* Store.Update: every matching record is patched in place, the map is saved
\* once, and the number of patched records is returned unless the save failed
Update(collection, criteria, updates, outcome) ==
    /\ opened
    /\ Named(collection)
    /\ CanSave(outcome)
    /\ LET records == Records(data, collection)
           patched == [i \in 1..Len(records) |->
                          IF matches(records[i], criteria)
                          THEN Patched(records[i], updates)
                          ELSE records[i]]
           updated == Cardinality({i \in 1..Len(records) :
                                      matches(records[i], criteria)})
           newData == WithCollection(data, collection, patched)
       IN  /\ data' = Kept(newData, outcome)
           /\ file' = Saved(newData, outcome)
           /\ lastOp' = [NoOp EXCEPT
                           !.op = "update", !.err = SaveFails(outcome),
                           !.n = IF SaveFails(outcome) THEN 0 ELSE updated]
    /\ nfailed' = FailedAfter(outcome)
    /\ UNCHANGED <<lifeVars, watchVars, heapVars, handlerVars, kvVars, concVars, opened, path, nextID, issuedLog,
                   openedAt, ninserts>>

\* Delete's loop that keeps nothing
RemainingNone(records, criteria) == <<>>

\* Delete's loop: the records that do not match, appended in order
Remaining(records, criteria) ==
    SelectSeq(records, LAMBDA record : ~matches(record, criteria))

\* Store.Delete: the records that do not match are kept in order, the map is
\* saved, and the number of removed records is returned unless the save failed
Delete(collection, criteria, outcome) ==
    /\ opened
    /\ Named(collection)
    /\ CanSave(outcome)
    /\ LET records == Records(data, collection)
           remaining == Remaining(records, criteria)
           newData == WithCollection(data, collection, remaining)
       IN  /\ data' = Kept(newData, outcome)
           /\ file' = Saved(newData, outcome)
           /\ lastOp' = [NoOp EXCEPT
                           !.op = "delete", !.err = SaveFails(outcome),
                           !.n = IF SaveFails(outcome) THEN 0
                                 ELSE Len(records) - Len(remaining)]
    /\ nfailed' = FailedAfter(outcome)
    /\ UNCHANGED <<lifeVars, watchVars, heapVars, handlerVars, kvVars, concVars, opened, path, nextID, issuedLog,
                   openedAt, ninserts>>

NextStore ==
    \/ \E p \in Paths : Open(p)
    \/ EmptyCollection
    \/ \E c \in CollectionArgs, criteria \in CriteriaArgs : Query(c, criteria)
    \/ \E c \in CollectionArgs, record \in InsertArgs, outcome \in SaveOutcomes :
          Insert(c, record, outcome)
    \/ \E c \in CollectionArgs, criteria \in CriteriaArgs, updates \in PatchArgs,
          outcome \in SaveOutcomes :
          Update(c, criteria, updates, outcome)
    \/ \E c \in CollectionArgs, criteria \in CriteriaArgs, outcome \in SaveOutcomes :
          Delete(c, criteria, outcome)

(* ----------------------- records and their callers ---------------------- *)
(* A record is a Go map: a field whose value is itself a map or a slice     *)
(* holds a reference to it. [t |-> "ref", v |-> a] is the reference to the  *)
(* nested value at address a, and heap[a] is what that value contains.      *)
(* cloneRecord copies the fields of a record, a reference as a reference.   *)
(* The caller keeps the record it passed to Insert and gets the records     *)
(* that Query and Insert return (lastOp.res).                               *)

\* the addresses of the nested values the caller has made
Addrs == {"tags"}

\* what a nested value can contain
Contents == {"red", "blue"}

RefV(a) == [t |-> "ref", v |-> a]

\* a record with a nested value, as a caller passes it to Insert
NestedRecord == [role |-> StrV("pilot"), tags |-> RefV("tags")]

InitHeap == heap = [a \in Addrs |-> "red"]

\* a record with one field set
WithField(record, key, value) ==
    [k \in DOMAIN record \cup {key} |-> IF k = key THEN value ELSE record[k]]

\* the caller sets a field of a record that Query or Insert returned to it
CallerWritesField(i) ==
    /\ opened
    /\ i \in 1..Len(lastOp.res)
    /\ lastOp.res[i] # WithField(lastOp.res[i], "role", StrV("commander"))
    /\ lastOp' = [lastOp EXCEPT
                    !.res[i] = WithField(@, "role", StrV("commander"))]
    /\ UNCHANGED <<lifeVars, watchVars, heapVars, handlerVars, kvVars, concVars, opened, path, data, nextID,
                   file, issuedLog, openedAt, ninserts, nfailed>>

\* the caller changes the nested value of the record it passed to Insert,
\* or of a record that was returned to it: a write through the reference
CallerWritesNested(a, x) ==
    /\ opened
    /\ heap[a] # x
    /\ heap' = [heap EXCEPT ![a] = x]
    /\ UNCHANGED <<lifeVars, watchVars, storeVars, concVars, handlerVars, kvVars>>

\* an in-memory store and a caller that keeps and changes its records
NextAlias ==
    \/ Open("")
    \/ \E c \in CollectionArgs, record \in InsertArgs \cup {NestedRecord} :
          Insert(c, record, "ok")
    \/ \E c \in CollectionArgs, criteria \in CriteriaArgs : Query(c, criteria)
    \/ \E i \in 1..MaxInserts : CallerWritesField(i)
    \/ \E a \in Addrs, x \in Contents : CallerWritesNested(a, x)

(* ----------------------- concurrent calls of the store ------------------ *)
(* Two goroutines call Query, Insert, Update and Delete on one in-memory    *)
(* store. A call takes s.mu, runs its body one loop iteration at a time     *)
(* (Update patches the records in place, Delete moves the records it keeps  *)
(* to the front of the same backing array) and releases s.mu on return.     *)

Callers == {"g1", "g2"}

NoCall == [kind |-> "none", coll |-> "", arg |-> EmptyRecord, patch |-> EmptyRecord]

\* the goroutines call the store for one collection, where their calls
\* conflict
SharedCollections == {"users"}

\* the calls a caller can make
Calls ==
    [kind : {"query"}, coll : SharedCollections, arg : CriteriaArgs,
     patch : {EmptyRecord}]
    \cup [kind : {"insert"}, coll : SharedCollections, arg : InsertArgs,
          patch : {EmptyRecord}]
    \cup [kind : {"update"}, coll : SharedCollections, arg : CriteriaArgs,
          patch : PatchArgs]
    \cup [kind : {"delete"}, coll : SharedCollections, arg : CriteriaArgs,
          patch : {EmptyRecord}]

\* what a call has returned so far: records and a count
NoResult == [res |-> <<>>, n |-> 0]

InitConc ==
    /\ smu = ""
    /\ cpc = [k \in Callers |-> "idle"]
    /\ cop = [k \in Callers |-> NoCall]
    /\ cidx = [k \in Callers |-> 0]
    /\ cres = [k \in Callers |-> NoResult]
    /\ seqData = NoCollections
    /\ seqNextID = 1
    /\ expect = [k \in Callers |-> NoResult]

\* a sequence with its i-th element replaced
SetAt(seq, i, x) == [j \in 1..Len(seq) |-> IF j = i THEN x ELSE seq[j]]

\* the call applied whole to the collections d and the counter id: the
\* collections, the counter and the result after it
Sequential(d, id, call) ==
    LET records == Records(d, call.coll)
        hits == {i \in 1..Len(records) : matches(records[i], call.arg)}
    IN  CASE call.kind = "query" ->
               [data |-> d, nextID |-> id,
                result |-> [res |-> SelectSeq(records,
                                     LAMBDA r : matches(r, call.arg)),
                            n |-> 0]]
          [] call.kind = "insert" ->
               [data |-> WithCollection(d, call.coll,
                                        Append(records, WithID(call.arg, id))),
                nextID |-> NextIDAfter(call.arg, id),
                result |-> [res |-> <<WithID(call.arg, id)>>, n |-> 0]]
          [] call.kind = "update" ->
               [data |-> WithCollection(d, call.coll,
                            [i \in 1..Len(records) |->
                                IF i \in hits
                                THEN Patched(records[i], call.patch)
                                ELSE records[i]]),
                nextID |-> id,
                result |-> [res |-> <<>>, n |-> Cardinality(hits)]]
          [] OTHER ->
               [data |-> WithCollection(d, call.coll,
                                        Remaining(records, call.arg)),
                nextID |-> id,
                result |-> [res |-> <<>>, n |-> Cardinality(hits)]]

\* a goroutine calls the store
CallBegin(k, call) ==
    /\ opened
    /\ cpc[k] = "idle"
    /\ call.kind = "insert" => ninserts < MaxInserts
    /\ ninserts' = IF call.kind = "insert" THEN ninserts + 1 ELSE ninserts
    /\ cpc' = [cpc EXCEPT ![k] = "lock"]
    /\ cop' = [cop EXCEPT ![k] = call]
    /\ UNCHANGED <<lifeVars, watchVars, heapVars, handlerVars, kvVars, opened, path, data, nextID,
                   file, lastOp, issuedLog, openedAt, nfailed, smu, cidx, cres,
                   seqData, seqNextID, expect>>

\* s.mu.Lock() that does not wait for the mutex to be free
AcquireHeld(k) ==
    /\ cpc[k] = "lock"
    /\ smu' = k
    /\ cpc' = [cpc EXCEPT ![k] = "body"]
    /\ cidx' = [cidx EXCEPT ![k] = 1]
    /\ cres' = [cres EXCEPT ![k] = NoResult]
    /\ LET after == Sequential(seqData, seqNextID, cop[k])
       IN  /\ seqData' = after.data
           /\ seqNextID' = after.nextID
           /\ expect' = [expect EXCEPT ![k] = after.result]
    /\ UNCHANGED <<lifeVars, watchVars, heapVars, handlerVars, kvVars, storeVars, cop>>

\* s.mu.Lock(): the caller takes the mutex when it is free
Acquire(k) ==
    /\ cpc[k] = "lock"
    /\ smu = ""
    /\ smu' = k
    /\ cpc' = [cpc EXCEPT ![k] = "body"]
    /\ cidx' = [cidx EXCEPT ![k] = 1]
    /\ cres' = [cres EXCEPT ![k] = NoResult]
    /\ LET after == Sequential(seqData, seqNextID, cop[k])
       IN  /\ seqData' = after.data
           /\ seqNextID' = after.nextID
           /\ expect' = [expect EXCEPT ![k] = after.result]
    /\ UNCHANGED <<lifeVars, watchVars, heapVars, handlerVars, kvVars, storeVars, cop>>

\* the caller's loop has records left to visit
InLoop(k) ==
    /\ cpc[k] = "body"
    /\ cidx[k] <= Len(Records(data, cop[k].coll))

\* one iteration of Query's loop: a matching record is cloned into the
\* result
QueryStep(k) ==
    /\ cop[k].kind = "query"
    /\ InLoop(k)
    /\ LET record == data[cop[k].coll][cidx[k]]
       IN  cres' = [cres EXCEPT ![k].res =
                       IF matches(record, cop[k].arg)
                       THEN Append(@, cloneRecord(record)) ELSE @]
    /\ cidx' = [cidx EXCEPT ![k] = @ + 1]
    /\ UNCHANGED <<lifeVars, watchVars, heapVars, handlerVars, kvVars, storeVars, smu, cpc, cop,
                   seqData, seqNextID, expect>>

\* one iteration of Update's loop: a matching record is patched in place
UpdateStep(k) ==
    /\ cop[k].kind = "update"
    /\ InLoop(k)
    /\ LET c == cop[k].coll
           record == data[c][cidx[k]]
       IN  IF matches(record, cop[k].arg)
           THEN /\ data' = [data EXCEPT ![c] =
                               SetAt(@, cidx[k], Patched(record, cop[k].patch))]
                /\ cres' = [cres EXCEPT ![k].n = @ + 1]
           ELSE UNCHANGED <<data, cres>>
    /\ cidx' = [cidx EXCEPT ![k] = @ + 1]
    /\ UNCHANGED <<lifeVars, watchVars, heapVars, handlerVars, kvVars, opened, path, nextID, file,
                   lastOp, issuedLog, openedAt, ninserts, nfailed, smu, cpc, cop,
                   seqData, seqNextID, expect>>

\* one iteration of Delete's loop: a matching record is counted, another is
\* appended to remaining, which is records[:0] and so writes it into the
\* array that s.data[collection] still refers to
DeleteStep(k) ==
    /\ cop[k].kind = "delete"
    /\ InLoop(k)
    /\ LET c == cop[k].coll
           record == data[c][cidx[k]]
           kept == cidx[k] - 1 - cres[k].n
       IN  IF matches(record, cop[k].arg)
           THEN /\ cres' = [cres EXCEPT ![k].n = @ + 1]
                /\ UNCHANGED data
           ELSE /\ data' = [data EXCEPT ![c] = SetAt(@, kept + 1, record)]
                /\ UNCHANGED cres
    /\ cidx' = [cidx EXCEPT ![k] = @ + 1]
    /\ UNCHANGED <<lifeVars, watchVars, heapVars, handlerVars, kvVars, opened, path, nextID, file,
                   lastOp, issuedLog, openedAt, ninserts, nfailed, smu, cpc, cop,
                   seqData, seqNextID, expect>>

\* Insert's body up to the append: the copy gets its id and the counter is
\* incremented
InsertStep(k) ==
    /\ cop[k].kind = "insert"
    /\ cpc[k] = "body"
    /\ cidx[k] = 1
    /\ cres' = [cres EXCEPT ![k].res = <<WithID(cop[k].arg, nextID)>>]
    /\ nextID' = NextIDAfter(cop[k].arg, nextID)
    /\ issuedLog' = IF "id" \in DOMAIN cop[k].arg THEN issuedLog
                    ELSE Append(issuedLog, nextID)
    /\ cidx' = [cidx EXCEPT ![k] = 2]
    /\ UNCHANGED <<lifeVars, watchVars, heapVars, handlerVars, kvVars, opened, path, data, file,
                   lastOp, openedAt, ninserts, nfailed, smu, cpc, cop,
                   seqData, seqNextID, expect>>

\* the end of the body and the deferred s.mu.Unlock(): Insert appends its
\* copy, Update and Delete assign s.data[collection], the store (it has no
\* path) saves nothing, and the call returns
Release(k) ==
    /\ cpc[k] = "body"
    /\ IF cop[k].kind = "insert" THEN cidx[k] = 2 ELSE ~InLoop(k)
    /\ LET c == cop[k].coll
           records == Records(data, c)
       IN  data' =
             CASE cop[k].kind = "insert" ->
                    WithCollection(data, c, Append(records, cres[k].res[1]))
               [] cop[k].kind = "update" -> WithCollection(data, c, records)
               [] cop[k].kind = "delete" ->
                    WithCollection(data, c,
                        SubSeq(records, 1, Len(records) - cres[k].n))
               [] OTHER -> data
    /\ smu' = IF smu = k THEN "" ELSE smu
    /\ cpc' = [cpc EXCEPT ![k] = "returned"]
    /\ UNCHANGED <<lifeVars, watchVars, heapVars, handlerVars, kvVars, opened, path, nextID, file,
                   lastOp, issuedLog, openedAt, ninserts, nfailed, cop, cidx,
                   cres, seqData, seqNextID, expect>>

\* the caller has its result and is ready for its next call
CallEnd(k) ==
    /\ cpc[k] = "returned"
    /\ cpc' = [cpc EXCEPT ![k] = "idle"]
    /\ cop' = [cop EXCEPT ![k] = NoCall]
    /\ cidx' = [cidx EXCEPT ![k] = 0]
    /\ cres' = [cres EXCEPT ![k] = NoResult]
    /\ expect' = [expect EXCEPT ![k] = NoResult]
    /\ UNCHANGED <<lifeVars, watchVars, heapVars, handlerVars, kvVars, storeVars, smu, seqData,
                   seqNextID>>

NextConc ==
    \/ Open("")
    \/ \E k \in Callers, call \in Calls : CallBegin(k, call)
    \/ \E k \in Callers :
          \/ Acquire(k)
          \/ QueryStep(k)
          \/ UpdateStep(k)
          \/ DeleteStep(k)
          \/ InsertStep(k)
          \/ Release(k)
          \/ CallEnd(k)

(* ----------------------- a handler that uses the store ------------------ *)
(* The handler closure of luaEngine.attachRoute runs the script's handler   *)
(* once under e.mu with Protect: true. The script calls db.query, db.insert *)
(* and db.delete, which go to the store at once, and then returns a         *)
(* response or raises (error(), or the error that a failed db call raises   *)
(* and the script does not catch).                                          *)

\* the collections, the id counter and the file
StoreState == [data |-> data, nextID |-> nextID, file |-> file]

NoRequest == [pc |-> "idle", runs |-> 0, status |-> 0, body |-> "none",
              before |-> [data |-> NoCollections, nextID |-> 0, file |-> NoFile]]

InitHandler == hreq = NoRequest

\* the closure is entered for a request and calls the handler
HandlerBegin ==
    /\ opened
    /\ hreq.pc = "idle"
    /\ hreq' = [NoRequest EXCEPT !.pc = "running", !.runs = 1,
                                 !.before = StoreState]
    /\ UNCHANGED <<lifeVars, watchVars, storeVars, heapVars, concVars, kvVars>>

\* CallByParam returns an error: the closure answers 500 with the JSON
\* object {"error": ...} and returns
HandlerRaises ==
    /\ hreq.pc = "running"
    /\ hreq' = [hreq EXCEPT !.pc = "responded", !.status = 500,
                            !.body = "error"]
    /\ UNCHANGED <<lifeVars, watchVars, storeVars, heapVars, concVars, kvVars>>

\* the handler returns: the closure answers with the script's response
HandlerReturns ==
    /\ hreq.pc = "running"
    /\ hreq' = [hreq EXCEPT !.pc = "responded", !.status = 200,
                            !.body = "script"]
    /\ UNCHANGED <<lifeVars, watchVars, storeVars, heapVars, concVars, kvVars>>

\* the response is sent; the next request can come
HandlerDone ==
    /\ hreq.pc = "responded"
    /\ hreq' = NoRequest
    /\ UNCHANGED <<lifeVars, watchVars, storeVars, heapVars, concVars, kvVars>>

\* the store is opened by main, and then only handlers call it
NextHandler ==
    \/ \E p \in Paths : ~opened /\ Open(p)
    \/ HandlerBegin
    \/ HandlerRaises
    \/ HandlerReturns
    \/ HandlerDone
    \/ /\ hreq.pc = "running"
       /\ \/ \E c \in CollectionArgs, criteria \in CriteriaArgs : Query(c, criteria)
          \/ \E c \in CollectionArgs, record \in InsertArgs, outcome \in SaveOutcomes :
                Insert(c, record, outcome)
          \/ \E c \in CollectionArgs, criteria \in CriteriaArgs, outcome \in SaveOutcomes :
                Delete(c, criteria, outcome)

\* the calls the claims about reopening speak of: Open, and Insert and Delete
\* whose save succeeds
NextStoreIDs ==
    \/ \E p \in Paths : Open(p)
    \/ \E c \in CollectionArgs, record \in InsertArgs : Insert(c, record, "ok")
    \/ \E c \in CollectionArgs, criteria \in CriteriaArgs : Delete(c, criteria, "ok")

(* ======================================================================= *)
(* Claims about the ids of the store                                       *)
(* ======================================================================= *)

\* the ids this Store value has assigned, in order
SinceOpen == SubSeq(issuedLog, openedAt + 1, Len(issuedLog))

StrictlyIncreasing(ids) ==
    \A i, j \in 1..Len(ids) : i < j => ids[i] < ids[j]

NoRepeat(ids) ==
    \A i, j \in 1..Len(ids) : i < j => ids[i] # ids[j]

\* Insert of a record with an id stores that id and returns it
KeepsExplicitID(collection, record) ==
    LET records == data'[collection]
    IN  /\ records[Len(records)]["id"] = record["id"]
        /\ ~lastOp'.err => lastOp'.res[1]["id"] = record["id"]

\* C9: Insert never overwrites an id supplied in the record, and the ids
\* one store assigns to inserts without an id are distinct and strictly
\* increasing in the order of the inserts, in any collections and whatever
\* other calls (queries, updates, deletes, failed saves) come between.
C9_InsertIDs ==
    /\ []StrictlyIncreasing(SinceOpen)
    /\ [][lastOp'.op = "insert" =>
             \A c \in CollectionArgs, record \in InsertArgs, outcome \in SaveOutcomes :
                (Insert(c, record, outcome) /\ "id" \in DOMAIN record)
                   => KeepsExplicitID(c, record)]_vars

\* two inserts without an id into different collections of one store, with
\* a Delete that emptied the first collection between them
C9_Witness ==
    /\ Len(SinceOpen) = 2
    /\ lastOp.op = "insert"
    /\ DOMAIN data = {"users", "logs"}
    /\ Len(data["users"]) = 1
    /\ Len(data["logs"]) = 0

\* C10: an id the store has assigned is never assigned again, also after
\* the record holding it was deleted and also after the store was reopened
\* from its file, for any sequence of insert, delete and reopen.
C10_IDsNeverReissued == NoRepeat(issuedLog)

\* the ids of the records in the file, as Open reads them
FileIDs ==
    LET d == Decode(file.doc)
    IN  { d[c][i]["id"] :
            <<c, i>> \in { ci \in (DOMAIN d) \X (1..MaxInserts) :
                             /\ ci[2] <= Len(d[ci[1]])
                             /\ "id" \in DOMAIN d[ci[1]][ci[2]] } }

\* the record Insert appended to the collection
Appended(collection) == data'[collection][Len(data'[collection])]

\* C11: the first Insert without an id after a store was opened from its
\* file assigns an id that differs from the id of every record in the
\* file, in whatever collection.
C11_ReopenInsertFresh ==
    [][(lastOp.op = "open" /\ file.exists /\ lastOp'.op = "insert") =>
          \A c \in CollectionArgs, record \in InsertArgs, outcome \in SaveOutcomes :
             (Insert(c, record, outcome) /\ "id" \notin DOMAIN record)
                => \A id \in FileIDs : ~valuesEqual(Appended(c)["id"], id)]_vars

\* a store reopened from a file that held a record, after one Insert
\* without an id: the file's record and the new one are both there
C11_Witness ==
    /\ lastOp.op = "insert"
    /\ path # ""
    /\ openedAt = 1
    /\ Len(issuedLog) = 2
    /\ DOMAIN data = {"users"}
    /\ Len(data["users"]) = 2

(* ======================================================================= *)
(* Claims about Query, Update, Delete and the collection name              *)
(* ======================================================================= *)

\* numerically-or-structurally equal: two numbers by their numeric value
\* whatever their representation, anything else by type and value
SameValue(a, b) ==
    \/ a = b
    \/ a.t \in {"int", "float"} /\ b.t \in {"int", "float"} /\ a.v = b.v

\* every criterion key is present in the record and equal to the criterion
Satisfies(record, criteria) ==
    \A key \in DOMAIN criteria :
        key \in DOMAIN record /\ SameValue(record[key], criteria[key])

\* the records of a collection before the call, none for an unknown one
Before(collection) ==
    IF collection \in DOMAIN data THEN data[collection] ELSE <<>>

\* C12: Query(c, {}) returns every record of c in stored order, Query(c,
\* criteria) returns exactly the records of c that have every criterion key
\* with an equal value (numbers by numeric value), in stored order, and an
\* unknown collection gives an empty result; Query returns no error.
C12_QueryReturnsMatches ==
    [][lastOp'.op = "query" =>
          \A c \in CollectionArgs, criteria \in CriteriaArgs :
             Query(c, criteria)
               => /\ ~lastOp'.err
                  /\ lastOp'.res = SelectSeq(Before(c),
                                             LAMBDA r : Satisfies(r, criteria))
                  /\ criteria = EmptyRecord => lastOp'.res = Before(c)
                  /\ c \notin DOMAIN data => lastOp'.res = <<>>]_vars

\* a Query by a float id that returned one of two records of a collection,
\* the one whose id the store assigned as an int
C12_Witness ==
    /\ lastOp.op = "query"
    /\ Len(lastOp.res) = 1
    /\ lastOp.res[1]["id"] = IntV(1)
    /\ \E c \in DOMAIN data :
          /\ Len(data[c]) = 2
          /\ \A i \in 1..2 : "role" \in DOMAIN data[c][i]
                              /\ data[c][i]["role"] = StrV("pilot")

\* the number of records of a sequence that satisfy the criteria
NumSatisfying(records, criteria) ==
    Cardinality({i \in 1..Len(records) : Satisfies(records[i], criteria)})

\* after has the patch fields with the patch values and every other field
\* of before with its value, and no further field
OnlyPatchFieldsWritten(before, after, patch) ==
    /\ DOMAIN after = DOMAIN before \cup DOMAIN patch
    /\ \A key \in DOMAIN patch : after[key] = patch[key]
    /\ \A key \in DOMAIN before \ DOMAIN patch : after[key] = before[key]

\* every collection but this one is what it was
OthersUnchanged(collection) ==
    /\ DOMAIN data' \ {collection} = DOMAIN data \ {collection}
    /\ \A c \in DOMAIN data \ {collection} : data'[c] = data[c]

\* C13: Update(c, criteria, patch) writes exactly the patch fields on every
\* record of c that matches and leaves its other fields (the id too) as
\* they were; records that do not match, the order of the records and
\* every other collection are unchanged; a call that returns without error
\* returns the number of matching records.
C13_UpdatePatchesMatches ==
    [][lastOp'.op = "update" =>
          \A c \in CollectionArgs, criteria \in CriteriaArgs,
             patch \in PatchArgs, outcome \in SaveOutcomes :
             Update(c, criteria, patch, outcome)
               => /\ Len(data'[c]) = Len(Before(c))
                  /\ \A i \in 1..Len(Before(c)) :
                        IF Satisfies(Before(c)[i], criteria)
                        THEN OnlyPatchFieldsWritten(Before(c)[i], data'[c][i], patch)
                        ELSE data'[c][i] = Before(c)[i]
                  /\ OthersUnchanged(c)
                  /\ ~lastOp'.err
                        => lastOp'.n = NumSatisfying(Before(c), criteria)]_vars

\* an Update by id that patched the first of two records of a collection:
\* its role is the patch's, its id is the one Insert gave it, and the
\* second record is as inserted
C13_Witness ==
    /\ lastOp.op = "update"
    /\ lastOp.n = 1
    /\ \E c \in DOMAIN data :
          /\ Len(data[c]) = 2
          /\ data[c][1] = [id |-> IntV(1), role |-> StrV("commander")]
          /\ data[c][2] = [id |-> IntV(2), role |-> StrV("pilot")]

\* C14: Delete(c, criteria) removes every record of c that matches and no
\* other: the records that do not match stay, in their order and with their
\* contents; other collections are unchanged; a call that returns without
\* error returns the number of records removed.
C14_DeleteRemovesMatches ==
    [][lastOp'.op = "delete" =>
          \A c \in CollectionArgs, criteria \in CriteriaArgs,
             outcome \in SaveOutcomes :
             Delete(c, criteria, outcome)
               => /\ data'[c] = SelectSeq(Before(c),
                                          LAMBDA r : ~Satisfies(r, criteria))
                  /\ OthersUnchanged(c)
                  /\ ~lastOp'.err
                        => lastOp'.n = NumSatisfying(Before(c), criteria)]_vars

\* a Delete by id that removed the first of the two records inserted into
\* a collection and left the second
C14_Witness ==
    /\ lastOp.op = "delete"
    /\ lastOp.n = 1
    /\ ninserts = 2
    /\ DOMAIN data = {"users"}
    /\ data["users"] = <<[id |-> IntV(2), role |-> StrV("pilot")]>>

\* C24: when the save fails in Insert, Update or Delete, the call returns
\* the error and no result, the file is as it was, and the mutation stays in
\* memory: the record is appended (and the id it consumed is not given
\* back), the matching records are patched, the matching records are gone.
C24_FailedSaveKeepsMutation ==
    [][nfailed' = nfailed + 1 =>
          /\ lastOp'.err /\ lastOp'.res = <<>> /\ lastOp'.n = 0
          /\ file' = file
          /\ \A c \in CollectionArgs, record \in InsertArgs :
                Insert(c, record, "error")
                  => /\ c \in DOMAIN data'
                     /\ Len(data'[c]) = Len(Before(c)) + 1
                     /\ OnlyPatchFieldsWritten(Appended(c), Appended(c), record)
                     /\ "id" \notin DOMAIN record
                           => /\ Appended(c)["id"] = IntV(nextID)
                              /\ nextID' = nextID + 1
          /\ \A c \in CollectionArgs, criteria \in CriteriaArgs, patch \in PatchArgs :
                Update(c, criteria, patch, "error")
                  => \A i \in 1..Len(Before(c)) :
                        Satisfies(Before(c)[i], criteria)
                           => OnlyPatchFieldsWritten(Before(c)[i], data'[c][i], patch)
          /\ \A c \in CollectionArgs, criteria \in CriteriaArgs :
                Delete(c, criteria, "error")
                  => /\ c \in DOMAIN data'
                     /\ data'[c] = SelectSeq(Before(c),
                                             LAMBDA r : ~Satisfies(r, criteria))]_vars

\* C24 witness: after an Insert whose save failed, a Query returns the
\* record, with the id the Insert gave it, and there is no file
C24_Witness ==
    /\ lastOp.op = "query"
    /\ nfailed = 1
    /\ ninserts = 1
    /\ path # ""
    /\ ~file.exists
    /\ lastOp.res = <<[id |-> IntV(1), role |-> StrV("pilot")]>>
    /\ nextID = 2

\* the ids of the records in the store
StoreIDs ==
    { data[ci[1]][ci[2]]["id"] :
        ci \in { ci \in (DOMAIN data) \X (1..MaxInserts) :
                   /\ ci[2] <= Len(data[ci[1]])
                   /\ "id" \in DOMAIN data[ci[1]][ci[2]] } }

\* C26: an id that Insert assigns is different from the id of every record
\* that is in the store when Insert is called, also when some of those
\* records were inserted with an id of their own.
C26_AutoIDNotInStore ==
    [][(lastOp'.op = "insert" /\ issuedLog' # issuedLog) =>
          \A id \in StoreIDs :
             ~SameValue(IntV(issuedLog'[Len(issuedLog')]), id)]_vars

\* a call of Query, Insert, Update or Delete with the empty collection name
CallWithEmptyName ==
    \/ EmptyCollection
    \/ \E criteria \in CriteriaArgs : Query("", criteria)
    \/ \E record \in InsertArgs, outcome \in SaveOutcomes :
          Insert("", record, outcome)
    \/ \E criteria \in CriteriaArgs, patch \in PatchArgs, outcome \in SaveOutcomes :
          Update("", criteria, patch, outcome)
    \/ \E criteria \in CriteriaArgs, outcome \in SaveOutcomes :
          Delete("", criteria, outcome)

\* C15: Query, Insert, Update and Delete with an empty collection name
\* return an error and leave the collections, the id counter and the file
\* as they were.
C15_EmptyNameRejected ==
    [][CallWithEmptyName
         => /\ lastOp'.err
            /\ lastOp'.res = <<>>
            /\ UNCHANGED <<data, nextID, file>>]_vars

\* a call with the empty name was rejected by a store that holds a record
\* and has a file
C15_Witness ==
    /\ lastOp.op = "rejected"
    /\ lastOp.err
    /\ file.exists
    /\ \E c \in DOMAIN data : data[c] # <<>>

(* ======================================================================= *)
(* Claims about the backing file                                           *)
(* ======================================================================= *)

\* the last call was Insert, Update or Delete and returned no error
MutationReturned ==
    lastOp.op \in {"insert", "update", "delete"} /\ ~lastOp.err

\* the file exists and read back it is the map d: the same collections,
\* each with the same records in the same order, each record with the same
\* fields and equal values
FileHolds(d) ==
    /\ file.exists
    /\ DOMAIN file.doc = DOMAIN d
    /\ \A c \in DOMAIN d :
          /\ Len(file.doc[c]) = Len(d[c])
          /\ \A i \in 1..Len(d[c]) :
                /\ DOMAIN file.doc[c][i] = DOMAIN d[c][i]
                /\ \A key \in DOMAIN d[c][i] :
                      SameValue(FromJSON(file.doc[c][i][key]), d[c][i][key])

\* C16: for a store with a path, when Insert, Update or Delete has returned
\* without error the file holds the whole in-memory map as of that return,
\* whatever happened before (failed saves too).
C16_FileIsMemoryAfterMutation ==
    (path # "" /\ MutationReturned) => FileHolds(data)

\* an Update returned without error after an earlier save had failed, on a
\* store with a path that holds a record
C16_Witness ==
    /\ path # ""
    /\ lastOp.op = "update"
    /\ ~lastOp.err
    /\ nfailed = 1
    /\ \E c \in DOMAIN data : data[c] # <<>>

\* C17 as stated: a store opened against an empty path or against a path
\* whose file is missing works in memory only, and no call on it creates
\* or writes a file.
C17_NoFileForEmptyOrMissingPath ==
    [][(opened /\ (path = "" \/ ~file.exists)) => file' = file]_vars

\* C17, amended: no call on a store opened with the empty path creates or
\* writes a file; a store opened with a path whose file is missing has the
\* file once Insert, Update or Delete has returned without error.
C17_NoFileForEmptyPath ==
    /\ [][(opened /\ path = "") => file' = file]_vars
    /\ [](MutationReturned => (file.exists <=> path # ""))

\* a store without a path after an Insert and a Delete that returned
\* without error: there is no file
C17_Witness ==
    /\ opened
    /\ path = ""
    /\ lastOp.op = "delete"
    /\ lastOp.n = 1
    /\ ~file.exists

(* ======================================================================= *)
(* Claims about the records handed across the store boundary               *)
(* ======================================================================= *)

\* a value as a reader sees it: a reference is followed to what it holds
Seen(value) ==
    IF value.t = "ref" THEN [t |-> "nested", v |-> heap[value.v]] ELSE value

\* what Query returns for the criteria {}, collection by collection, as a
\* reader sees it
QueryView ==
    [c \in DOMAIN data |->
        [i \in 1..Len(data[c]) |->
            [key \in DOMAIN data[c][i] |-> Seen(data[c][i][key])]]]

\* the caller changes a record it holds
CallerWrites ==
    \/ \E i \in 1..MaxInserts : CallerWritesField(i)
    \/ \E a \in Addrs, x \in Contents : CallerWritesNested(a, x)

\* C18: the records handed across the boundary of the store are copies: a
\* change the caller makes to a record that Query or Insert returned, or to
\* the record it passed to Insert, nested values included, does not change
\* what a later Query returns.
C18_CallerChangesInvisible ==
    [][CallerWrites => QueryView' = QueryView]_vars

(* ======================================================================= *)
(* Claims about concurrent calls of the store                              *)
(* ======================================================================= *)

\* C19: concurrent calls of Query, Insert, Update and Delete are
\* serializable: whenever no call is inside the store, the collections and
\* the id counter are those that the calls give when applied whole, one
\* after the other, in the order in which they took the lock, and every
\* call returns what it returns in that order; so a Query never sees an
\* Update or a Delete that is half done.
C19_Serializable ==
    /\ (opened /\ smu = "" /\ \A k \in Callers : cpc[k] # "body")
          => (data = seqData /\ nextID = seqNextID)
    /\ \A k \in Callers : cpc[k] = "returned" => cres[k] = expect[k]

\* an Update that has patched the first of two records and not yet reached
\* the second, while the other goroutine waits for the lock with a Query
\* of the same collection
C19_Witness ==
    \E k, q \in Callers :
       /\ cpc[k] = "body"
       /\ cop[k].kind = "update"
       /\ cidx[k] = 2
       /\ cres[k].n = 1
       /\ Len(Records(data, cop[k].coll)) = 2
       /\ cpc[q] = "lock"
       /\ cop[q].kind = "query"
       /\ cop[q].coll = cop[k].coll

(* ======================================================================= *)
(* Claims about the store shared by the runtimes, checked under SpecShared *)
(* ======================================================================= *)

\* the last call was a Get by a handler of a runtime built after the one
\* whose handler made the last write
ReadInLaterGeneration ==
    /\ kvop.op = "get"
    /\ kvop.by = "handler"
    /\ written.by = "handler"
    /\ kvop.gen > written.gen

\* no step of the watcher callback (NewLuaEngine, LoadScript returning,
\* Swap taking the lock, the pointer swap, Engine.Close) changes the store
CallbackStepsKeepStore == [][cbpc' # cbpc => kv' = kv]_vars

\* C21 as stated: the store is shared across runtime generations and a
\* reload leaves it unchanged: a value written by a handler of one
\* generation is read back unchanged by a handler of a later generation,
\* and neither building, swapping nor closing a runtime writes to the store.
C21_ReloadLeavesStore ==
    /\ [](ReadInLaterGeneration => kvop.value = written.value)
    /\ [](written.by # "build")
    /\ CallbackStepsKeepStore

\* C21 as amended: the store is shared across runtime generations: a value
\* that a handler of one generation wrote last is read back unchanged by a
\* handler of a later generation, the store changes only in a Set or Delete
\* that a script calls, and no step of the runtime manager (creating the
\* engine, swapping, closing) changes it. (The script's top level, run by
\* LoadScript during a build, may call Set.)
C21_StoreSharedAcrossGenerations ==
    /\ [](ReadInLaterGeneration => kvop.value = written.value)
    /\ [][kv' # kv => (kvop'.op \in {"set", "delete"} /\ written'.by # "none")]_vars
    /\ CallbackStepsKeepStore

\* C21 witness: a handler of the second runtime reads the value a handler
\* of the first runtime wrote, after the swap closed the first runtime
C21_Witness ==
    /\ ReadInLaterGeneration
    /\ written.gen = 1
    /\ kvop.gen = 2
    /\ kvop.value = "a"
    /\ status[1] = "Closed"

(* ======================================================================= *)
(* Claims about handlers that use the store                                *)
(* ======================================================================= *)

\* C20: when the handler raises, the caller gets 500 with a JSON object
\* that has an error field, the handler was run once, and the store is as
\* it was before the call.
C20_HandlerErrorLeavesStore ==
    (hreq.pc = "responded" /\ hreq.status = 500)
       => /\ hreq.body = "error"
          /\ hreq.runs = 1
          /\ hreq.before = StoreState

Init ==
    /\ InitLife /\ InitWatch /\ InitStore /\ InitHeap /\ InitConc
    /\ InitHandler /\ InitKV

NextLife ==
    \/ InitialBuildOK
    \/ InitialBuildFail
    \/ \E q \in Req : Arrive(q)
    \/ \E q \in Req : RLock(q)
    \/ \E q \in Req : ReadRuntime(q)
    \/ \E q \in Req : NoRoute(q)
    \/ \E q \in Req : LockFast(q)
    \/ \E q \in Req : LockPark(q)
    \/ \E q \in Req : RetryAcquire(q)
    \/ \E q \in Req : RetryPark(q)
    \/ \E q \in Req : Finish(q)
    \/ \E q \in Req : FinishWake(q)
    \/ \E q \in Req : FinishHandoff(q)
    \/ \E q \in Req : RUnlock(q)
    \/ ReloadBegin
    \/ BuildOK
    \/ BuildFail
    \/ SwapLock
    \/ SwapAcquire
    \/ SwapPointer
    \/ SwapClose
    \/ Signal
    \/ WatcherStop
    \/ ShutdownBegin
    \/ GraceExpire
    \/ ShutdownDone
    \/ MainReturn

Spec == Init /\ [][NextLife]_vars

\* requests without end and reloads, while no shutdown is signalled
NextStream ==
    \/ InitialBuildOK
    \/ InitialBuildFail
    \/ \E q \in Req : Arrive(q)
    \/ \E q \in Req : RLock(q)
    \/ \E q \in Req : ReadRuntime(q)
    \/ \E q \in Req : NoRoute(q)
    \/ \E q \in Req : LockFast(q)
    \/ \E q \in Req : LockPark(q)
    \/ \E q \in Req : RetryAcquire(q)
    \/ \E q \in Req : RetryPark(q)
    \/ \E q \in Req : Finish(q)
    \/ \E q \in Req : FinishWake(q)
    \/ \E q \in Req : FinishHandoff(q)
    \/ \E q \in Req : RUnlock(q)
    \/ \E q \in Req : NextRequest(q)
    \/ ReloadBegin
    \/ BuildOK
    \/ BuildFail
    \/ SwapLock
    \/ SwapAcquire
    \/ SwapPointer
    \/ SwapClose

\* what the Go scheduler guarantees: a goroutine that can take its next
\* step takes it. A request that called a lock operation gets through it or
\* parks, a handler that runs returns, the callback goes on. A waiter of
\* sync.Mutex that keeps losing the lock has in the end waited longer than
\* the starvation threshold and switches the lock to starvation mode.
\* Nothing is assumed about when requests arrive or reloads begin.
RequestFairness(q) ==
    /\ WF_vars(RLock(q))
    /\ WF_vars(ReadRuntime(q))
    /\ WF_vars(NoRoute(q) \/ LockFast(q) \/ LockPark(q))
    /\ WF_vars(RetryAcquire(q) \/ RetryPark(q))
    /\ SF_vars(RetryPark(q) /\ estarving'[current[q]])
    /\ WF_vars(Finish(q) \/ FinishWake(q) \/ FinishHandoff(q))
    /\ WF_vars(RUnlock(q))

CallbackFairness ==
    /\ WF_vars(BuildOK \/ BuildFail)
    /\ WF_vars(SwapLock)
    /\ WF_vars(SwapAcquire)
    /\ WF_vars(SwapPointer)
    /\ WF_vars(SwapClose)

SpecStream ==
    /\ Init
    /\ [][NextStream]_vars
    /\ \A q \in Req : RequestFairness(q)
    /\ CallbackFairness

SpecWatcher == Init /\ [][NextWatch]_vars

SpecStore == Init /\ [][NextStore]_vars

SpecStoreIDs == Init /\ [][NextStoreIDs]_vars

SpecAlias == Init /\ [][NextAlias]_vars

SpecConc == Init /\ [][NextConc]_vars

SpecHandler == Init /\ [][NextHandler]_vars

SpecShared == Init /\ [][NextShared]_vars

====
